---------------------------- MODULE Spec2Model ----------------------------
(***************************************************************************)
(* A model of the MFlow compiler pipeline: Lexer, Parser, SemanticAnalyzer *)
(* CodeGenerator and the MFlowCompiler facade.                             *)
(*                                                                         *)
(* Text is modelled as a sequence of string pieces.  Source text and the   *)
(* token values cut from it are sequences of one-character strings; text   *)
(* the compiler builds from its own literals may hold longer pieces.  The  *)
(* text a sequence denotes is the concatenation of its pieces.             *)
(***************************************************************************)
EXTENDS Integers, Sequences, FiniteSets, TLC

VARIABLES
  mode,        \* entry point in use: "compile", "tokenize", "parse", "analyze"
  pc,          \* position of the running call
  input,       \* Lexer.input
  lexer,       \* Lexer.position / line / column / currentChar
  token,       \* the local `token` of Lexer.tokenize
  tokens,      \* the token array built by tokenize, then Parser.tokens
  current,     \* Parser.current
  statements,  \* the local `statements` of Parser.parse
  console,     \* what Parser.parse wrote with console.error
  thrownAt,    \* history: Parser.current at each ParseError caught by parse
  ast,         \* the Program returned by Parser.parse
  scopes,      \* SemanticAnalyzer.scopes
  errors,      \* SemanticAnalyzer.errors
  stmtIndex,   \* index of the next statement of analyze's loop over body
  indent,      \* CodeGenerator.indent
  output,      \* CodeGenerator.output
  genIndex,    \* index of the next statement of generate's loop over body
  result,      \* the CompilationResult returned by compile
  run          \* the execution of the generated text by the host runtime

vars == <<mode, pc, input, lexer, token, tokens, current, statements, console,
          thrownAt, ast, scopes, errors, stmtIndex, indent, output, genIndex,
          result, run>>

\* JavaScript's null / undefined, as a value no character or record equals.
Null == "null"

-----------------------------------------------------------------------------
(* Bounds of the model *)

\* longest source text enumerated character by character
MaxSrcLen == 4

-----------------------------------------------------------------------------
(* Characters *)

Digits == <<"0", "1", "2", "3", "4", "5", "6", "7", "8", "9">>

LowerLetters == <<"a", "b", "c", "d", "e", "f", "g", "h", "i", "j", "k", "l", "m",
                  "n", "o", "p", "q", "r", "s", "t", "u", "v", "w", "x", "y", "z">>

UpperLetters == <<"A", "B", "C", "D", "E", "F", "G", "H", "I", "J", "K", "L", "M",
                  "N", "O", "P", "Q", "R", "S", "T", "U", "V", "W", "X", "Y", "Z">>

Range(s) == {s[i] : i \in DOMAIN s}

\* /\d/
IsDigit(c) == c \in Range(Digits)

\* /[ \t\r]/
IsBlank(c) == c \in {" ", "\t", "\r"}

\* /[a-zA-Z_]/
IsIdentStart(c) == c \in Range(LowerLetters) \cup Range(UpperLetters) \cup {"_"}

\* /[a-zA-Z0-9_]/
IsIdentPart(c) == IsIdentStart(c) \/ IsDigit(c)

\* /[0-9A-Fa-f]/
IsHexDigit(c) ==
  IsDigit(c) \/ c \in {"a", "b", "c", "d", "e", "f", "A", "B", "C", "D", "E", "F"}

\* String.prototype.toLowerCase on one character
LowerChar(c) ==
  IF c \in Range(UpperLetters)
  THEN LowerLetters[CHOOSE i \in DOMAIN UpperLetters : UpperLetters[i] = c]
  ELSE c

\* String.prototype.toLowerCase
ToLowerCase(s) == [i \in DOMAIN s |-> LowerChar(s[i])]

\* Number.prototype.toString / template interpolation of a non-negative integer
RECURSIVE NumStr(_)
NumStr(n) ==
  IF n < 10 THEN <<Digits[n + 1]>>
  ELSE Append(NumStr(n \div 10), Digits[(n % 10) + 1])

-----------------------------------------------------------------------------
(* Tokens *)

TokenType ==
  {"NUMBER", "STRING", "COLOR", "IDENTIFIER",
   "LET", "FN", "RETURN", "IF", "ELSE", "REPEAT", "ANIMATE", "SCENE",
   "CIRCLE", "RECT", "LINE", "TRIANGLE",
   "MOVE", "ROTATE", "SCALE", "FADE",
   "UP", "DOWN", "LEFT", "RIGHT",
   "AT", "SIZE", "WIDTH", "HEIGHT", "COLOR_PROP", "SPEED",
   "PLUS", "MINUS", "MULTIPLY", "DIVIDE", "MODULO", "ASSIGN",
   "EQUAL", "NOT_EQUAL", "LESS_THAN", "GREATER_THAN", "LESS_EQUAL", "GREATER_EQUAL",
   "LPAREN", "RPAREN", "LBRACE", "RBRACE", "COMMA", "DOT", "NEWLINE",
   "EOF", "ILLEGAL"}

KEYWORDS ==
     (<<"l", "e", "t">> :> "LET")
  @@ (<<"f", "n">> :> "FN")
  @@ (<<"r", "e", "t", "u", "r", "n">> :> "RETURN")
  @@ (<<"i", "f">> :> "IF")
  @@ (<<"e", "l", "s", "e">> :> "ELSE")
  @@ (<<"r", "e", "p", "e", "a", "t">> :> "REPEAT")
  @@ (<<"a", "n", "i", "m", "a", "t", "e">> :> "ANIMATE")
  @@ (<<"s", "c", "e", "n", "e">> :> "SCENE")
  @@ (<<"c", "i", "r", "c", "l", "e">> :> "CIRCLE")
  @@ (<<"r", "e", "c", "t">> :> "RECT")
  @@ (<<"l", "i", "n", "e">> :> "LINE")
  @@ (<<"t", "r", "i", "a", "n", "g", "l", "e">> :> "TRIANGLE")
  @@ (<<"m", "o", "v", "e">> :> "MOVE")
  @@ (<<"r", "o", "t", "a", "t", "e">> :> "ROTATE")
  @@ (<<"s", "c", "a", "l", "e">> :> "SCALE")
  @@ (<<"f", "a", "d", "e">> :> "FADE")
  @@ (<<"u", "p">> :> "UP")
  @@ (<<"d", "o", "w", "n">> :> "DOWN")
  @@ (<<"l", "e", "f", "t">> :> "LEFT")
  @@ (<<"r", "i", "g", "h", "t">> :> "RIGHT")
  @@ (<<"a", "t">> :> "AT")
  @@ (<<"s", "i", "z", "e">> :> "SIZE")
  @@ (<<"w", "i", "d", "t", "h">> :> "WIDTH")
  @@ (<<"h", "e", "i", "g", "h", "t">> :> "HEIGHT")
  @@ (<<"c", "o", "l", "o", "r">> :> "COLOR_PROP")
  @@ (<<"s", "p", "e", "e", "d">> :> "SPEED")

\* The twelve property names every object literal inherits from
\* Object.prototype (Object.getOwnPropertyNames(Object.prototype)): a lookup
\* obj[name] on KEYWORDS or on a scope frame finds these too.
InheritedKeys ==
  { <<"_", "_", "d", "e", "f", "i", "n", "e", "G", "e", "t", "t", "e", "r", "_", "_">>,
    <<"_", "_", "d", "e", "f", "i", "n", "e", "S", "e", "t", "t", "e", "r", "_", "_">>,
    <<"_", "_", "l", "o", "o", "k", "u", "p", "G", "e", "t", "t", "e", "r", "_", "_">>,
    <<"_", "_", "l", "o", "o", "k", "u", "p", "S", "e", "t", "t", "e", "r", "_", "_">>,
    <<"_", "_", "p", "r", "o", "t", "o", "_", "_">>,
    <<"c", "o", "n", "s", "t", "r", "u", "c", "t", "o", "r">>,
    <<"h", "a", "s", "O", "w", "n", "P", "r", "o", "p", "e", "r", "t", "y">>,
    <<"i", "s", "P", "r", "o", "t", "o", "t", "y", "p", "e", "O", "f">>,
    <<"p", "r", "o", "p", "e", "r", "t", "y", "I", "s", "E", "n", "u", "m", "e", "r", "a", "b", "l", "e">>,
    <<"t", "o", "L", "o", "c", "a", "l", "e", "S", "t", "r", "i", "n", "g">>,
    <<"t", "o", "S", "t", "r", "i", "n", "g">>,
    <<"v", "a", "l", "u", "e", "O", "f">> }

\* The value of an inherited property, which is no TokenType member.
InheritedValue == "Object.prototype"

\* KEYWORDS[key]
KeywordLookup(key) ==
  IF key \in DOMAIN KEYWORDS THEN KEYWORDS[key]
  ELSE IF key \in InheritedKeys THEN InheritedValue
  ELSE Null

Token(type, value, line, column) ==
  [type |-> type, value |-> value, line |-> line, column |-> column]

NoToken == Token(Null, <<>>, 0, 0)

-----------------------------------------------------------------------------
(* Lexer *)

\* new Lexer(input)
NewLexer(in) ==
  [position |-> 0, line |-> 1, column |-> 1,
   currentChar |-> IF Len(in) > 0 THEN in[1] ELSE Null]

\* Lexer.advance
LexerAdvance(in, L) ==
  LET p == L.position + 1
      c == L.column + 1
  IN IF p >= Len(in)
     THEN [position |-> p, line |-> L.line, column |-> c, currentChar |-> Null]
     ELSE IF in[p + 1] = "\n"
          THEN [position |-> p, line |-> L.line + 1, column |-> 1,
                currentChar |-> in[p + 1]]
          ELSE [position |-> p, line |-> L.line, column |-> c,
                currentChar |-> in[p + 1]]

\* Lexer.peek (offset 1)
LexerPeek(in, L) ==
  IF L.position + 1 >= Len(in) THEN Null ELSE in[L.position + 2]

\* Lexer.skipWhitespace
RECURSIVE SkipWhitespace(_, _)
SkipWhitespace(in, L) ==
  IF L.currentChar # Null /\ IsBlank(L.currentChar)
  THEN SkipWhitespace(in, LexerAdvance(in, L))
  ELSE L

\* Lexer.skipComment
RECURSIVE SkipCommentLoop(_, _)
SkipCommentLoop(in, L) ==
  IF L.currentChar # Null /\ L.currentChar # "\n"
  THEN SkipCommentLoop(in, LexerAdvance(in, L))
  ELSE L

SkipComment(in, L) ==
  IF L.currentChar = "/" /\ LexerPeek(in, L) = "/"
  THEN SkipCommentLoop(in, L)
  ELSE L

\* the loop of Lexer.readNumber
RECURSIVE ReadNumberLoop(_, _, _, _)
ReadNumberLoop(in, L, numStr, hasDot) ==
  IF L.currentChar # Null /\ (IsDigit(L.currentChar) \/ L.currentChar = ".")
  THEN IF L.currentChar = "." /\ hasDot
       THEN [lex |-> L, str |-> numStr]
       ELSE ReadNumberLoop(in, LexerAdvance(in, L), Append(numStr, L.currentChar),
                           hasDot \/ L.currentChar = ".")
  ELSE [lex |-> L, str |-> numStr]

\* Lexer.readNumber
ReadNumber(in, L) ==
  LET r == ReadNumberLoop(in, L, <<>>, FALSE)
  IN [tok |-> Token("NUMBER", r.str, r.lex.line, L.column), lex |-> r.lex]

\* the loop of Lexer.readString
RECURSIVE ReadStringLoop(_, _, _)
ReadStringLoop(in, L, str) ==
  IF L.currentChar # Null /\ L.currentChar # "\""
  THEN IF L.currentChar = "\\" /\ LexerPeek(in, L) = "\""
       THEN ReadStringLoop(in, LexerAdvance(in, LexerAdvance(in, L)),
                           Append(str, "\""))
       ELSE ReadStringLoop(in, LexerAdvance(in, L), Append(str, L.currentChar))
  ELSE [lex |-> L, str |-> str]

\* Lexer.readString
ReadString(in, L) ==
  LET r == ReadStringLoop(in, LexerAdvance(in, L), <<>>)
      after == IF r.lex.currentChar = "\"" THEN LexerAdvance(in, r.lex) ELSE r.lex
  IN [tok |-> Token("STRING", r.str, after.line, L.column), lex |-> after]

\* the loop of Lexer.readColor
RECURSIVE ReadColorLoop(_, _, _)
ReadColorLoop(in, L, colorStr) ==
  IF L.currentChar # Null /\ IsHexDigit(L.currentChar)
  THEN ReadColorLoop(in, LexerAdvance(in, L), Append(colorStr, L.currentChar))
  ELSE [lex |-> L, str |-> colorStr]

\* Lexer.readColor
ReadColor(in, L) ==
  LET r == ReadColorLoop(in, LexerAdvance(in, L), <<"#">>)
  IN [tok |-> Token("COLOR", r.str, r.lex.line, L.column), lex |-> r.lex]

\* the loop of Lexer.readIdentifier
RECURSIVE ReadIdentifierLoop(_, _, _)
ReadIdentifierLoop(in, L, identifier) ==
  IF L.currentChar # Null /\ IsIdentPart(L.currentChar)
  THEN ReadIdentifierLoop(in, LexerAdvance(in, L), Append(identifier, L.currentChar))
  ELSE [lex |-> L, str |-> identifier]

\* KEYWORDS[identifier.toLowerCase()] || TokenType.IDENTIFIER
IdentifierType(identifier) ==
  LET found == KeywordLookup(ToLowerCase(identifier))
  IN IF found # Null THEN found ELSE "IDENTIFIER"

\* Lexer.readIdentifier
ReadIdentifier(in, L) ==
  LET r == ReadIdentifierLoop(in, L, <<>>)
  IN [tok |-> Token(IdentifierType(r.str), r.str, r.lex.line, L.column),
      lex |-> r.lex]

\* the single-character cases of nextToken's switch
SingleCharType(c) ==
  CASE c = "+" -> "PLUS"
    [] c = "-" -> "MINUS"
    [] c = "*" -> "MULTIPLY"
    [] c = "/" -> "DIVIDE"
    [] c = "%" -> "MODULO"
    [] c = "(" -> "LPAREN"
    [] c = ")" -> "RPAREN"
    [] c = "{" -> "LBRACE"
    [] c = "}" -> "RBRACE"
    [] c = "," -> "COMMA"
    [] c = "." -> "DOT"
    [] OTHER   -> "ILLEGAL"

\* the cases of nextToken's switch that look for a following '='
TwoCharType(c, followedByEq) ==
  CASE c = "=" -> IF followedByEq THEN "EQUAL" ELSE "ASSIGN"
    [] c = "!" -> IF followedByEq THEN "NOT_EQUAL" ELSE "ILLEGAL"
    [] c = "<" -> IF followedByEq THEN "LESS_EQUAL" ELSE "LESS_THAN"
    [] c = ">" -> IF followedByEq THEN "GREATER_EQUAL" ELSE "GREATER_THAN"

\* ReadOperator with a default case that returns the ILLEGAL token without
\* the call of advance: the scan would stay on the character
ReadOperatorStuck(in, L) ==
  LET char == L.currentChar
      L1   == LexerAdvance(in, L)
  IN IF char \in {"=", "!", "<", ">"}
     THEN IF L1.currentChar = "="
          THEN [tok |-> Token(TwoCharType(char, TRUE), <<char, "=">>,
                              LexerAdvance(in, L1).line, L.column),
                lex |-> LexerAdvance(in, L1)]
          ELSE [tok |-> Token(TwoCharType(char, FALSE), <<char>>, L1.line, L.column),
                lex |-> L1]
     ELSE IF SingleCharType(char) = "ILLEGAL"
          THEN [tok |-> Token("ILLEGAL", <<char>>, L.line, L.column), lex |-> L]
          ELSE [tok |-> Token(SingleCharType(char), <<char>>, L1.line, L.column),
                lex |-> L1]

\* the switch of Lexer.nextToken (operators and delimiters)
ReadOperator(in, L) ==
  LET char == L.currentChar
      L1   == LexerAdvance(in, L)
  IN IF char \in {"=", "!", "<", ">"}
     THEN IF L1.currentChar = "="
          THEN LET L2 == LexerAdvance(in, L1)
               IN [tok |-> Token(TwoCharType(char, TRUE), <<char, "=">>,
                                 L2.line, L.column),
                   lex |-> L2]
          ELSE [tok |-> Token(TwoCharType(char, FALSE), <<char>>, L1.line, L.column),
                lex |-> L1]
     ELSE [tok |-> Token(SingleCharType(char), <<char>>, L1.line, L.column),
           lex |-> L1]

\* Lexer.nextToken
RECURSIVE NextToken(_, _)
NextToken(in, L0) ==
  IF L0.currentChar = Null
  THEN [tok |-> Token("EOF", <<>>, L0.line, L0.column), lex |-> L0]
  ELSE
    LET L == SkipWhitespace(in, L0)
    IN IF L.currentChar = Null
       THEN [tok |-> Token("EOF", <<>>, L.line, L.column), lex |-> L]
       ELSE IF L.currentChar = "/" /\ LexerPeek(in, L) = "/"
       THEN NextToken(in, SkipComment(in, L))
       ELSE IF L.currentChar = "\n"
       THEN [tok |-> Token("NEWLINE", <<"\n">>, L.line, L.column),
             lex |-> LexerAdvance(in, L)]
       ELSE IF IsDigit(L.currentChar) THEN ReadNumber(in, L)
       ELSE IF L.currentChar = "\"" THEN ReadString(in, L)
       ELSE IF L.currentChar = "#" THEN ReadColor(in, L)
       ELSE IF IsIdentStart(L.currentChar) THEN ReadIdentifier(in, L)
       ELSE ReadOperator(in, L)

\* Lexer.tokenize, as one function of the input
RECURSIVE TokenizeFrom(_, _, _)
TokenizeFrom(in, L, acc) ==
  LET r == NextToken(in, L)
  IN IF r.tok.type = "EOF" THEN Append(acc, r.tok)
     ELSE TokenizeFrom(in, r.lex,
                       IF r.tok.type # "NEWLINE" THEN Append(acc, r.tok) ELSE acc)

Tokenize(in) == TokenizeFrom(in, NewLexer(in), <<>>)

-----------------------------------------------------------------------------
(* AST nodes and parse results *)

NoNode == [type |-> Null]

\* A field that may be null: the empty sequence for null, else the value alone.
None == <<>>
Some(v) == <<v>>

\* new ParseError(message, line, column): message is the full Error.message
ParseError(message, line, column) ==
  [message |-> <<"Parse error at line ">> \o NumStr(line) \o <<", column ">>
               \o NumStr(column) \o <<": ">> \o message,
   line |-> line, column |-> column]

NoError == [message |-> <<>>, line |-> 0, column |-> 0]

\* a parse method that returned `node` with the cursor at `pos`
Ok(pos, node) == [ok |-> TRUE, pos |-> pos, node |-> node, err |-> NoError]

\* a parse method that threw ParseError(message) at token `tok`, cursor at `pos`
Throw(pos, message, tok) ==
  [ok |-> FALSE, pos |-> pos, node |-> NoNode,
   err |-> ParseError(message, tok.line, tok.column)]

Identifier(tok) ==
  [type |-> "Identifier", name |-> tok.value, line |-> tok.line, column |-> tok.column]

\* digits without leading zeros (one digit at least)
StripLeadingZeros(d) ==
  IF d = <<>> THEN d
  ELSE SubSeq(d, CHOOSE i \in DOMAIN d :
                   (d[i] # "0" \/ i = Len(d)) /\ \A j \in 1..(i - 1) : d[j] = "0",
              Len(d))

\* digits without trailing zeros
StripTrailingZeros(d) ==
  SubSeq(d, 1, CHOOSE n \in 0..Len(d) :
                 (n = 0 \/ d[n] # "0") /\ \A j \in (n + 1)..Len(d) : d[j] = "0")

\* digits without any leading zero
StripAllZeros(d) ==
  IF \A i \in DOMAIN d : d[i] = "0" THEN <<>>
  ELSE SubSeq(d, CHOOSE i \in DOMAIN d : d[i] # "0" /\ \A j \in 1..(i - 1) : d[j] = "0",
              Len(d))

-----------------------------------------------------------------------------
(* Numbers.  parseFloat yields an IEEE 754 double; the model keeps a double  *)
(* as the decimal digits that Number.prototype.toString prints for it (the   *)
(* shortest digits that denote no other double).  The arithmetic behind it   *)
(* is done on naturals of any size: sequences of limbs 0..9999 (four decimal *)
(* digits each), the most significant first, without leading zeros (the      *)
(* empty sequence is zero).                                                  *)

Base == 10000

\* n zeros
Zeros(n) == [i \in 1..n |-> 0]

\* a natural without leading zeros
BigTrim(a) ==
  IF \A i \in DOMAIN a : a[i] = 0 THEN <<>>
  ELSE SubSeq(a, CHOOSE i \in DOMAIN a : a[i] # 0 /\ \A j \in 1..(i - 1) : a[j] = 0,
              Len(a))

\* the value of a digit character
DigitValue(c) == CHOOSE d \in 0..9 : Digits[d + 1] = c

\* the natural written by a text of digit characters: the text, filled with
\* zeros on the left to a multiple of four digits, is cut into limbs
DigitAt(text, i) == IF i < 1 THEN 0 ELSE DigitValue(text[i])
BigOf(text) ==
  BigTrim([j \in 1..((Len(text) + 3) \div 4) |->
             1000 * DigitAt(text, Len(text) - 4 * ((Len(text) + 3) \div 4 - j) - 3)
             + 100 * DigitAt(text, Len(text) - 4 * ((Len(text) + 3) \div 4 - j) - 2)
             + 10 * DigitAt(text, Len(text) - 4 * ((Len(text) + 3) \div 4 - j) - 1)
             + DigitAt(text, Len(text) - 4 * ((Len(text) + 3) \div 4 - j))])

\* the digit characters of a natural (none for zero)
BigDigits(a) ==
  StripAllZeros([i \in 1..(4 * Len(a)) |->
                   Digits[((a[(i + 3) \div 4] \div (10 ^ (3 - ((i - 1) % 4)))) % 10) + 1]])

\* the number of decimal digits of a natural
DecimalLen(a) ==
  IF a = <<>> THEN 0
  ELSE 4 * (Len(a) - 1)
       + (IF a[1] >= 1000 THEN 4 ELSE IF a[1] >= 100 THEN 3 ELSE IF a[1] >= 10 THEN 2 ELSE 1)

\* -1, 0 or 1 as a is less than, equal to or greater than b
BigCmp(a, b) ==
  IF Len(a) # Len(b) THEN (IF Len(a) < Len(b) THEN -1 ELSE 1)
  ELSE IF a = b THEN 0
  ELSE IF \E i \in DOMAIN a : a[i] < b[i] /\ \A j \in 1..(i - 1) : a[j] = b[j]
       THEN -1 ELSE 1

\* a + 1: the limbs 9999 at the end turn to 0 and the limb before them rises
BigSucc(a) ==
  IF \A i \in DOMAIN a : a[i] = Base - 1 THEN <<1>> \o Zeros(Len(a))
  ELSE [i \in DOMAIN a |->
          IF \A j \in (i + 1)..Len(a) : a[j] = Base - 1
          THEN (IF a[i] = Base - 1 THEN 0 ELSE a[i] + 1)
          ELSE a[i]]

\* a - b, for a >= b: limb i lends to the limbs after it when the nearest
\* limb after it where a and b differ is the smaller one in a
Borrow(a, b, i) ==
  IF \E m \in (i + 1)..Len(a) :
       a[m] < b[m] /\ \A t \in (i + 1)..(m - 1) : a[t] = b[t]
  THEN 1 ELSE 0
BigSubPadded(a, b) ==
  BigTrim([i \in DOMAIN a |-> (a[i] - b[i] - Borrow(a, b, i) + Base) % Base])
BigSub(a, b) == BigSubPadded(a, Zeros(Len(a) - Len(b)) \o b)

\* a * d for 0 <= d < Base.  Column j of the product (j = 1 the highest)
\* collects the low half of limb j - 1 times d and the high half of limb j
\* times d; a column takes a carry of 1 when the nearest column after it that
\* is not Base - 1 is Base or more
Column(a, d, j) ==
  (IF j > 1 THEN (a[j - 1] * d) % Base ELSE 0)
  + (IF j <= Len(a) THEN (a[j] * d) \div Base ELSE 0)
Carry(a, d, j) ==
  IF \E m \in (j + 1)..(Len(a) + 1) :
       Column(a, d, m) >= Base
       /\ \A t \in (j + 1)..(m - 1) : Column(a, d, t) = Base - 1
  THEN 1 ELSE 0
BigMulSmall(a, d) ==
  BigTrim([j \in 1..(Len(a) + 1) |-> (Column(a, d, j) + Carry(a, d, j)) % Base])

\* a * 2^k: up to 2^13 at once, a greater power in two halves
RECURSIVE TimesPow2(_, _)
TimesPow2(a, k) ==
  IF k <= 0 THEN a
  ELSE IF k <= 13 THEN BigMulSmall(a, 2 ^ k)
  ELSE CHOOSE r \in {TimesPow2(b, k - k \div 2) : b \in {TimesPow2(a, k \div 2)}} : TRUE

\* a * 10^k
TimesPow10(a, k) ==
  IF a = <<>> \/ k <= 0 THEN a ELSE BigMulSmall(a, 10 ^ (k % 4)) \o Zeros(k \div 4)

\* the greatest limb d in lo..hi with b * d <= a, where b * lo <= a
RECURSIVE QuotLimb(_, _, _, _)
QuotLimb(a, b, lo, hi) ==
  IF lo >= hi THEN lo
  ELSE IF BigCmp(BigMulSmall(b, (lo + hi + 1) \div 2), a) <= 0
  THEN CHOOSE d \in {QuotLimb(a, b, m, hi) : m \in {(lo + hi + 1) \div 2}} : TRUE
  ELSE CHOOSE d \in {QuotLimb(a, b, lo, m) : m \in {(lo + hi + 1) \div 2 - 1}} : TRUE

\* one step of the long division: the quotient so far, the remainder with the
\* next limb brought down, the divisor and the next limb of the quotient
DivStep(q, r, b, d) == [q |-> BigTrim(Append(q, d)), r |-> BigSub(r, BigMulSmall(b, d))]
DivBring(q, r, b) ==
  CHOOSE s \in {DivStep(q, r, b, d) : d \in {QuotLimb(r, b, 0, Base - 1)}} : TRUE
DivNext(prev, limb, b) ==
  CHOOSE s \in {DivBring(prev.q, r, b) : r \in {BigTrim(Append(prev.r, limb))}} : TRUE

\* quotient and remainder of the first i limbs of a by b; fewer limbs than b
\* has give the quotient 0
RECURSIVE BigDivRec(_, _, _)
BigDivRec(a, b, i) ==
  IF i < Len(b) \/ i = 0 THEN [q |-> <<>>, r |-> BigTrim(SubSeq(a, 1, i))]
  ELSE CHOOSE s \in {DivNext(prev, a[i], b) : prev \in {BigDivRec(a, b, i - 1)}} : TRUE

\* quotient and remainder of a by b, b > 0
BigDivMod(a, b) == BigDivRec(a, b, Len(a))

\* 2^52 and 2^53
TwoTo52 == <<4503, 5996, 2737, 496>>
TwoTo53 == <<9007, 1992, 5474, 992>>

\* the least and the greatest exponent of a double m * 2^e with m < 2^53
MinExponent == 0 - 1074
MaxExponent == 971

\* a double: m * 2^e with 2^52 <= m < 2^53, or m < 2^52 and e = MinExponent;
\* Infinity is marked by an exponent above MaxExponent
Double(m, e) == [m |-> m, e |-> e]
Infinity == Double(<<>>, MaxExponent + 1)

\* the quotient of a by b, rounded down, also for a < 0
FloorDiv(a, b) == IF a >= 0 THEN a \div b ELSE 0 - ((b - 1 - a) \div b)

\* the quotient m of n by d, with remainder r, rounded to the nearest natural,
\* a tie to the even one, at exponent e
RoundDouble(m, r, d, e) ==
  IF BigCmp(BigMulSmall(r, 2), d) > 0
     \/ (BigCmp(BigMulSmall(r, 2), d) = 0 /\ m # <<>> /\ m[Len(m)] % 2 = 1)
  THEN (IF BigSucc(m) = TwoTo53 THEN Double(TwoTo52, e + 1) ELSE Double(BigSucc(m), e))
  ELSE Double(m, e)

\* an exponent above MaxExponent is Infinity
Overflowing(x) == IF x.e > MaxExponent THEN Infinity ELSE x

\* how many times a quotient q must be halved to fall below 2^53
Excess(q) == Cardinality({i \in 0..31 : BigCmp(q, TimesPow2(TwoTo53, i)) >= 0})

\* the double nearest to n/d, n > 0, searched from exponent e on, where
\* n/d >= 2^52 unless e = MinExponent: when the quotient is 2^53 or more the
\* exponent rises (the denominator doubles) so that it falls below 2^53, and
\* the quotient is rounded
RECURSIVE ScaleUp(_, _, _)
ScaledQuotient(qr, n, d, e) ==
  IF BigCmp(qr.q, TwoTo53) >= 0
  THEN CHOOSE x \in {ScaleUp(n, TimesPow2(d, j), e + j) : j \in {Excess(qr.q)}} : TRUE
  ELSE Overflowing(RoundDouble(qr.q, qr.r, d, e))
ScaleUp(n, d, e) ==
  CHOOSE x \in {ScaledQuotient(qr, n, d, e) : qr \in {BigDivMod(n, d)}} : TRUE

\* an exponent e with 2^52 * 2^e <= n/d, from the lengths of n and d
\* (3.321 < log2(10) < 3.322), and not below MinExponent
ExponentFor(t) ==
  IF t >= 0 THEN (t * 3321) \div 1000 - 53
  ELSE IF FloorDiv(t * 3322, 1000) - 53 < MinExponent THEN MinExponent
  ELSE FloorDiv(t * 3322, 1000) - 53
ExponentBelow(n, d) == ExponentFor(DecimalLen(n) - DecimalLen(d) - 1)

\* the double nearest to n/d
ToDouble(n, d) ==
  IF n = <<>> THEN Double(<<>>, 0)
  ELSE CHOOSE x \in {ScaleUp(n2, d2, ExponentBelow(n, d)) :
                       n2 \in {TimesPow2(n, 0 - ExponentBelow(n, d))},
                       d2 \in {TimesPow2(d, ExponentBelow(n, d))}} : TRUE

\* the digit characters `digits` at decimal exponent p (the number
\* digits * 10^p) as the digits before and after the decimal point
PlaceDigits(total, p) ==
  [int |-> StripLeadingZeros(<<"0">> \o SubSeq(total, 1, Len(total) + p)),
   frac |-> StripTrailingZeros(SubSeq(total, Len(total) + p + 1, Len(total)))]
Place(digits, p) ==
  IF p >= 0 THEN [int |-> digits \o [i \in 1..p |-> "0"], frac |-> <<>>]
  ELSE PlaceDigits([i \in 1..(0 - p - Len(digits)) |-> "0"] \o digits, p)

\* s * 10^p denotes the double x
Denotes(s, p, x) ==
  s # <<>> /\ ToDouble(TimesPow10(s, p), TimesPow10(<<1>>, 0 - p)) = x

\* the number of k digits that denotes the double x = nx/dx,
\* 10^(n-1) <= x < 10^n, or zero when there is none: of the two numbers of k
\* digits around x the nearer one first (the even one when they are as near)
CandidateOf(near, far, x, p) ==
  IF Denotes(near, p, x) THEN near ELSE IF Denotes(far, p, x) THEN far ELSE <<>>
CandidateAround(qr, b, x, p) ==
  IF qr.r = <<>> THEN qr.q
  ELSE IF BigCmp(BigMulSmall(qr.r, 2), b) < 0
          \/ (BigCmp(BigMulSmall(qr.r, 2), b) = 0
              /\ (qr.q = <<>> \/ qr.q[Len(qr.q)] % 2 = 0))
  THEN CandidateOf(qr.q, BigSucc(qr.q), x, p)
  ELSE CandidateOf(BigSucc(qr.q), qr.q, x, p)
Candidate(x, nx, dx, n, k) ==
  CHOOSE s \in {CandidateAround(qr, TimesPow10(dx, n - k), x, n - k) :
                  qr \in {BigDivMod(TimesPow10(nx, k - n), TimesPow10(dx, n - k))}} : TRUE

\* the shortest digits that denote the double x: the least k in lo..hi for
\* which a number of k digits denotes x (one of hi digits does, and when one
\* of k digits does, one of k + 1 digits does)
RECURSIVE Shortest(_, _, _, _, _, _)
Shortest(x, nx, dx, n, lo, hi) ==
  IF lo >= hi THEN Place(BigDigits(Candidate(x, nx, dx, n, lo)), n - lo)
  ELSE IF Candidate(x, nx, dx, n, (lo + hi) \div 2) # <<>>
  THEN Shortest(x, nx, dx, n, lo, (lo + hi) \div 2)
  ELSE Shortest(x, nx, dx, n, (lo + hi) \div 2 + 1, hi)

\* the decimal exponent n of nx/dx: 10^(n-1) <= nx/dx < 10^n
DecimalExponent(nx, dx) ==
  IF BigCmp(TimesPow10(nx, DecimalLen(dx) - DecimalLen(nx)),
            TimesPow10(dx, DecimalLen(nx) - DecimalLen(dx))) >= 0
  THEN DecimalLen(nx) - DecimalLen(dx) + 1
  ELSE DecimalLen(nx) - DecimalLen(dx)

\* the digits Number.prototype.toString prints for a double, as the digits
\* before and after the decimal point
DecimalOfRatio(x, nx, dx) ==
  CHOOSE v \in {Shortest(x, nx, dx, n, 1, 17) : n \in {DecimalExponent(nx, dx)}} : TRUE
DecimalOf(x) ==
  IF x.e > MaxExponent
  THEN [int |-> <<"I", "n", "f", "i", "n", "i", "t", "y">>, frac |-> <<>>]
  ELSE IF x.m = <<>> THEN [int |-> <<"0">>, frac |-> <<>>]
  ELSE CHOOSE v \in {DecimalOfRatio(x, nx, dx) :
                       nx \in {TimesPow2(x.m, x.e)},
                       dx \in {TimesPow2(<<1>>, 0 - x.e)}} : TRUE

\* the digits of a numeral that count: without the zeros before and after
SignificantDigits(int, frac) == StripTrailingZeros(StripLeadingZeros(int \o frac))

\* parseFloat on a NUMBER token's text (digits with at most one dot): the
\* double nearest to the numeral, kept as the digits toString prints for it.
\* A numeral of at most 15 significant digits within 1e-300..1e300 denotes a
\* double that prints as the numeral itself, without the zeros it does not
\* need.
ParseFloatOf(int, frac) ==
  IF Len(SignificantDigits(int, frac)) <= 15 /\ Len(int) <= 300 /\ Len(frac) <= 300
  THEN [int |-> int, frac |-> frac]
  ELSE CHOOSE v \in {DecimalOf(x) :
                       x \in {ToDouble(BigOf(int \o frac),
                                       TimesPow10(<<1>>, Len(frac)))}} : TRUE
ParseFloatAt(text, dot) ==
  ParseFloatOf(StripLeadingZeros(<<"0">> \o SubSeq(text, 1, dot - 1)),
               StripTrailingZeros(SubSeq(text, dot + 1, Len(text))))
ParseFloat(text) ==
  ParseFloatAt(text, IF \E i \in DOMAIN text : text[i] = "."
                     THEN CHOOSE i \in DOMAIN text : text[i] = "."
                     ELSE Len(text) + 1)

-----------------------------------------------------------------------------
(* Parser: the cursor primitives *)

\* Parser.peek
Peek(toks, p) == toks[p + 1]

\* Parser.previous
Previous(toks, p) == toks[p]

\* Parser.isAtEnd
IsAtEnd(toks, p) == Peek(toks, p).type = "EOF"

\* Parser.advance: the cursor after the call
ParserAdvance(toks, p) == IF ~IsAtEnd(toks, p) THEN p + 1 ELSE p

\* Parser.check
Check(toks, p, type) == ~IsAtEnd(toks, p) /\ Peek(toks, p).type = type

\* Parser.match: whether one of the types matched (the cursor then advances)
Match(toks, p, types) == \E t \in types : Check(toks, p, t)

\* Parser.consume: returns the consumed token as the node
Consume(toks, p, type, message) ==
  IF Check(toks, p, type)
  THEN Ok(ParserAdvance(toks, p), Peek(toks, p))
  ELSE Throw(p, message, Peek(toks, p))

\* the token types at which Parser.synchronize stops
SyncKeywords == {"LET", "FN", "IF", "REPEAT", "ANIMATE", "SCENE", "RETURN"}

\* the loop of Parser.synchronize
RECURSIVE SynchronizeLoop(_, _)
SynchronizeLoop(toks, p) ==
  IF ~IsAtEnd(toks, p)
  THEN IF Previous(toks, p).type = "NEWLINE" THEN p
       ELSE IF Peek(toks, p).type \in SyncKeywords THEN p
       ELSE SynchronizeLoop(toks, ParserAdvance(toks, p))
  ELSE p

\* synchronize that returns at once, skipping no token
SynchronizeStay(toks, p) == p

\* Parser.synchronize: the cursor after the call
Synchronize(toks, p) == SynchronizeLoop(toks, ParserAdvance(toks, p))

-----------------------------------------------------------------------------
(* Parser: the grammar.  Each method takes the tokens and the cursor and     *)
(* yields Ok(cursor, node) or Throw(cursor, ...) for a raised ParseError.    *)

RECURSIVE Statement(_, _), StatementList(_, _, _), Block(_, _, _),
          FunctionDeclaration(_, _), ParameterList(_, _, _),
          IfStatement(_, _), RepeatStatement(_, _), SceneBlock(_, _),
          Expression(_, _), Comparison(_, _), ComparisonLoop(_, _, _),
          Additive(_, _), AdditiveLoop(_, _, _),
          Multiplicative(_, _), MultiplicativeLoop(_, _, _),
          Call(_, _), ArgumentList(_, _, _), Shape(_, _),
          Position(_, _, _, _, _), Circle(_, _), Rect(_, _), Line(_, _),
          Triangle(_, _), TrianglePoints(_, _, _), Primary(_, _)

\* a call that may throw, followed by the rest of the method: a thrown
\* ParseError leaves the method at once, a returned value goes to Continue
Try(r, Continue(_)) == IF r.ok THEN Continue(r) ELSE r

\* Parser.primary
Primary(toks, p) ==
  LET tok == Peek(toks, p)
  IN IF Match(toks, p, {"NUMBER"})
     THEN Ok(p + 1, [type |-> "NumberLiteral", value |-> ParseFloat(tok.value),
                     line |-> tok.line, column |-> tok.column])
     ELSE IF Match(toks, p, {"STRING"})
     THEN Ok(p + 1, [type |-> "StringLiteral", value |-> tok.value,
                     line |-> tok.line, column |-> tok.column])
     ELSE IF Match(toks, p, {"COLOR"})
     THEN Ok(p + 1, [type |-> "ColorLiteral", value |-> tok.value,
                     line |-> tok.line, column |-> tok.column])
     ELSE IF Match(toks, p, {"IDENTIFIER"})
     THEN Ok(p + 1, Identifier(tok))
     ELSE IF Match(toks, p, {"LPAREN"})
     THEN Try(Expression(toks, p + 1), LAMBDA e :
          Try(Consume(toks, e.pos, "RPAREN", <<"Expected ) after expression">>),
              LAMBDA c : Ok(c.pos, e.node)))
     ELSE Throw(p, <<"Unexpected token: ">> \o tok.value, tok)

\* "( x , y )" as the shape methods read it: consume, expression, consume,
\* expression, consume
Position(toks, p, openMsg, commaMsg, closeMsg) ==
  Try(Consume(toks, p, "LPAREN", openMsg), LAMBDA o :
  Try(Expression(toks, o.pos), LAMBDA x :
  Try(Consume(toks, x.pos, "COMMA", commaMsg), LAMBDA c :
  Try(Expression(toks, c.pos), LAMBDA y :
  Try(Consume(toks, y.pos, "RPAREN", closeMsg), LAMBDA z :
  Ok(z.pos, [x |-> x.node, y |-> y.node]))))))

\* circle with an optional size clause: without it the size is the x of the
\* position
CircleSizeOptional(toks, p) ==
  LET tok == Previous(toks, p)
  IN Try(Consume(toks, p, "AT", <<"Expected \"at\" after circle">>), LAMBDA a :
     Try(Position(toks, a.pos, <<"Expected ( for position">>,
                  <<"Expected , in position">>, <<"Expected ) after position">>),
         LAMBDA pos :
     Try(IF Check(toks, pos.pos, "SIZE") THEN Expression(toks, pos.pos + 1)
         ELSE Ok(pos.pos, pos.node.x), LAMBDA size :
     Try(Consume(toks, size.pos, "COLOR_PROP", <<"Expected \"color\" keyword">>),
         LAMBDA c :
     Try(Expression(toks, c.pos), LAMBDA color :
     Ok(color.pos, [type |-> "Circle", position |-> pos.node,
                    size |-> size.node, color |-> color.node,
                    line |-> tok.line, column |-> tok.column]))))))

\* Parser.circle (the CIRCLE token is at p)
Circle(toks, p) ==
  LET tok == Previous(toks, p)
  IN Try(Consume(toks, p, "AT", <<"Expected \"at\" after circle">>), LAMBDA a :
     Try(Position(toks, a.pos, <<"Expected ( for position">>,
                  <<"Expected , in position">>, <<"Expected ) after position">>),
         LAMBDA pos :
     Try(Consume(toks, pos.pos, "SIZE", <<"Expected \"size\" keyword">>), LAMBDA s :
     Try(Expression(toks, s.pos), LAMBDA size :
     Try(Consume(toks, size.pos, "COLOR_PROP", <<"Expected \"color\" keyword">>),
         LAMBDA c :
     Try(Expression(toks, c.pos), LAMBDA color :
     Ok(color.pos, [type |-> "Circle", position |-> pos.node,
                    size |-> size.node, color |-> color.node,
                    line |-> tok.line, column |-> tok.column])))))))

\* Parser.rect
Rect(toks, p) ==
  LET tok == Previous(toks, p)
  IN Try(Consume(toks, p, "AT", <<"Expected \"at\" after rect">>), LAMBDA a :
     Try(Position(toks, a.pos, <<"Expected ( for position">>,
                  <<"Expected , in position">>, <<"Expected ) after position">>),
         LAMBDA pos :
     Try(Consume(toks, pos.pos, "WIDTH", <<"Expected \"width\" keyword">>), LAMBDA w :
     Try(Expression(toks, w.pos), LAMBDA width :
     Try(Consume(toks, width.pos, "HEIGHT", <<"Expected \"height\" keyword">>),
         LAMBDA h :
     Try(Expression(toks, h.pos), LAMBDA height :
     Try(Consume(toks, height.pos, "COLOR_PROP", <<"Expected \"color\" keyword">>),
         LAMBDA c :
     Try(Expression(toks, c.pos), LAMBDA color :
     Ok(color.pos, [type |-> "Rect", position |-> pos.node,
                    width |-> width.node, height |-> height.node,
                    color |-> color.node,
                    line |-> tok.line, column |-> tok.column])))))))))

\* Parser.line
Line(toks, p) ==
  LET tok == Previous(toks, p)
  IN Try(Position(toks, p, <<"Expected ( for start position">>,
                  <<"Expected , in position">>,
                  <<"Expected ) after start position">>), LAMBDA s :
     Try(Position(toks, s.pos, <<"Expected ( for end position">>,
                  <<"Expected , in position">>,
                  <<"Expected ) after end position">>), LAMBDA e :
     Try(Consume(toks, e.pos, "COLOR_PROP", <<"Expected \"color\" keyword">>),
         LAMBDA c :
     Try(Expression(toks, c.pos), LAMBDA color :
     Ok(color.pos, [type |-> "Line", start |-> s.node, end |-> e.node,
                    color |-> color.node,
                    line |-> tok.line, column |-> tok.column])))))

\* the for loop of Parser.triangle
TrianglePoints(toks, p, points) ==
  IF Len(points) < 3
  THEN Try(Position(toks, p, <<"Expected ( for point">>,
                    <<"Expected , in point">>, <<"Expected ) after point">>),
           LAMBDA pt : TrianglePoints(toks, pt.pos, Append(points, pt.node)))
  ELSE Ok(p, points)

\* Parser.triangle
Triangle(toks, p) ==
  LET tok == Previous(toks, p)
  IN Try(TrianglePoints(toks, p, <<>>), LAMBDA pts :
     Try(Consume(toks, pts.pos, "COLOR_PROP", <<"Expected \"color\" keyword">>),
         LAMBDA c :
     Try(Expression(toks, c.pos), LAMBDA color :
     Ok(color.pos, [type |-> "Triangle", points |-> pts.node, color |-> color.node,
                    line |-> tok.line, column |-> tok.column]))))

\* Parser.shape
Shape(toks, p) ==
  IF Match(toks, p, {"CIRCLE"}) THEN Circle(toks, p + 1)
  ELSE IF Match(toks, p, {"RECT"}) THEN Rect(toks, p + 1)
  ELSE IF Match(toks, p, {"LINE"}) THEN Line(toks, p + 1)
  ELSE IF Match(toks, p, {"TRIANGLE"}) THEN Triangle(toks, p + 1)
  ELSE Primary(toks, p)

\* the do-while loop of Parser.call over the arguments
ArgumentList(toks, p, args) ==
  Try(Expression(toks, p), LAMBDA e :
      IF Match(toks, e.pos, {"COMMA"})
      THEN ArgumentList(toks, e.pos + 1, Append(args, e.node))
      ELSE Ok(e.pos, Append(args, e.node)))

\* Parser.call
Call(toks, p) ==
  Try(Shape(toks, p), LAMBDA callee :
      IF Match(toks, callee.pos, {"LPAREN"})
      THEN Try(IF ~Check(toks, callee.pos + 1, "RPAREN")
               THEN ArgumentList(toks, callee.pos + 1, <<>>)
               ELSE Ok(callee.pos + 1, <<>>), LAMBDA args :
           Try(Consume(toks, args.pos, "RPAREN", <<"Expected ) after arguments">>),
               LAMBDA c :
           Ok(c.pos, [type |-> "CallExpression", callee |-> callee.node,
                      arguments |-> args.node,
                      line |-> callee.node.line, column |-> callee.node.column])))
      ELSE callee)

BinaryExpression(operator, left, right) ==
  [type |-> "BinaryExpression", operator |-> operator.value,
   left |-> left, right |-> right,
   line |-> operator.line, column |-> operator.column]

\* the while loop of Parser.multiplicative
MultiplicativeLoop(toks, p, expr) ==
  IF Match(toks, p, {"MULTIPLY", "DIVIDE", "MODULO"})
  THEN Try(Call(toks, p + 1), LAMBDA right :
           MultiplicativeLoop(toks, right.pos,
                              BinaryExpression(Peek(toks, p), expr, right.node)))
  ELSE Ok(p, expr)

\* a multiplicative level that reads no operator
MultiplicativeSkipped(toks, p) == Call(toks, p)

\* Parser.multiplicative
Multiplicative(toks, p) ==
  Try(Call(toks, p), LAMBDA left : MultiplicativeLoop(toks, left.pos, left.node))

\* the while loop of Parser.additive
AdditiveLoop(toks, p, expr) ==
  IF Match(toks, p, {"PLUS", "MINUS"})
  THEN Try(Multiplicative(toks, p + 1), LAMBDA right :
           AdditiveLoop(toks, right.pos,
                        BinaryExpression(Peek(toks, p), expr, right.node)))
  ELSE Ok(p, expr)

\* Parser.additive
Additive(toks, p) ==
  Try(Multiplicative(toks, p), LAMBDA left : AdditiveLoop(toks, left.pos, left.node))

\* the while loop of Parser.comparison
ComparisonLoop(toks, p, expr) ==
  IF Match(toks, p, {"GREATER_THAN", "GREATER_EQUAL", "LESS_THAN", "LESS_EQUAL",
                     "EQUAL", "NOT_EQUAL"})
  THEN Try(Additive(toks, p + 1), LAMBDA right :
           ComparisonLoop(toks, right.pos,
                          BinaryExpression(Peek(toks, p), expr, right.node)))
  ELSE Ok(p, expr)

\* Parser.comparison
Comparison(toks, p) ==
  Try(Additive(toks, p), LAMBDA left : ComparisonLoop(toks, left.pos, left.node))

\* Parser.expression
Expression(toks, p) == Comparison(toks, p)

-----------------------------------------------------------------------------
(* Parser: statements *)

\* the loop `while (!check(RBRACE) && !isAtEnd()) body.push(statement())`
StatementList(toks, p, body) ==
  IF ~Check(toks, p, "RBRACE") /\ ~IsAtEnd(toks, p)
  THEN Try(Statement(toks, p), LAMBDA st :
           StatementList(toks, st.pos, Append(body, st.node)))
  ELSE Ok(p, body)

\* a statement list and the consume of its closing brace
Block(toks, p, closeMsg) ==
  Try(StatementList(toks, p, <<>>), LAMBDA body :
  Try(Consume(toks, body.pos, "RBRACE", closeMsg), LAMBDA c :
  Ok(c.pos, body.node)))

\* Parser.letStatement (the LET token is at p)
LetStatement(toks, p) ==
  LET tok == Previous(toks, p)
  IN Try(Consume(toks, p, "IDENTIFIER", <<"Expected variable name">>), LAMBDA name :
     Try(Consume(toks, name.pos, "ASSIGN", <<"Expected = after variable name">>),
         LAMBDA eq :
     Try(Expression(toks, eq.pos), LAMBDA value :
     Ok(value.pos, [type |-> "LetStatement", identifier |-> Identifier(name.node),
                    value |-> value.node,
                    line |-> tok.line, column |-> tok.column]))))

\* the do-while loop of Parser.functionDeclaration over the parameters
ParameterList(toks, p, parameters) ==
  Try(Consume(toks, p, "IDENTIFIER", <<"Expected parameter name">>), LAMBDA param :
      IF Match(toks, param.pos, {"COMMA"})
      THEN ParameterList(toks, param.pos + 1,
                         Append(parameters, Identifier(param.node)))
      ELSE Ok(param.pos, Append(parameters, Identifier(param.node))))

\* Parser.functionDeclaration
FunctionDeclaration(toks, p) ==
  LET tok == Previous(toks, p)
  IN Try(Consume(toks, p, "IDENTIFIER", <<"Expected function name">>), LAMBDA name :
     Try(Consume(toks, name.pos, "LPAREN", <<"Expected ( after function name">>),
         LAMBDA lp :
     Try(IF ~Check(toks, lp.pos, "RPAREN")
         THEN ParameterList(toks, lp.pos, <<>>)
         ELSE Ok(lp.pos, <<>>), LAMBDA params :
     Try(Consume(toks, params.pos, "RPAREN", <<"Expected ) after parameters">>),
         LAMBDA rp :
     Try(Consume(toks, rp.pos, "LBRACE", <<"Expected { before function body">>),
         LAMBDA lb :
     Try(Block(toks, lb.pos, <<"Expected } after function body">>), LAMBDA body :
     Ok(body.pos, [type |-> "FunctionDeclaration",
                   name |-> Identifier(name.node),
                   parameters |-> params.node, body |-> body.node,
                   line |-> tok.line, column |-> tok.column])))))))

\* Parser.returnStatement
ReturnStatement(toks, p) ==
  LET tok == Previous(toks, p)
  IN IF ~IsAtEnd(toks, p) /\ Peek(toks, p).type # "RBRACE"
     THEN Try(Expression(toks, p), LAMBDA value :
              Ok(value.pos, [type |-> "ReturnStatement", value |-> Some(value.node),
                             line |-> tok.line, column |-> tok.column]))
     ELSE Ok(p, [type |-> "ReturnStatement", value |-> None,
                 line |-> tok.line, column |-> tok.column])

\* Parser.ifStatement
IfStatement(toks, p) ==
  LET tok == Previous(toks, p)
  IN Try(Expression(toks, p), LAMBDA condition :
     Try(Consume(toks, condition.pos, "LBRACE", <<"Expected { after if condition">>),
         LAMBDA lb :
     Try(Block(toks, lb.pos, <<"Expected } after if body">>), LAMBDA thenBranch :
     Try(IF Match(toks, thenBranch.pos, {"ELSE"})
         THEN Try(Consume(toks, thenBranch.pos + 1, "LBRACE",
                          <<"Expected { after else">>), LAMBDA eb :
              Try(Block(toks, eb.pos, <<"Expected } after else body">>),
                  LAMBDA block : Ok(block.pos, Some(block.node))))
         ELSE Ok(thenBranch.pos, None), LAMBDA elseBranch :
     Ok(elseBranch.pos, [type |-> "IfStatement", condition |-> condition.node,
                         thenBranch |-> thenBranch.node,
                         elseBranch |-> elseBranch.node,
                         line |-> tok.line, column |-> tok.column])))))

\* Parser.repeatStatement
RepeatStatement(toks, p) ==
  LET tok == Previous(toks, p)
  IN Try(Expression(toks, p), LAMBDA times :
     Try(Consume(toks, times.pos, "LBRACE", <<"Expected { after repeat count">>),
         LAMBDA lb :
     Try(Block(toks, lb.pos, <<"Expected } after repeat body">>), LAMBDA body :
     Ok(body.pos, [type |-> "RepeatStatement", times |-> times.node,
                   body |-> body.node,
                   line |-> tok.line, column |-> tok.column]))))

\* Parser.moveCommand (the MOVE token is at p)
MoveCommand(toks, p) ==
  LET tok == Previous(toks, p)
  IN Try(Primary(toks, p), LAMBDA amount :
         IF Match(toks, amount.pos, {"UP", "DOWN", "LEFT", "RIGHT"})
         THEN Ok(amount.pos + 1,
                 [type |-> "Move", amount |-> amount.node,
                  direction |-> ToLowerCase(Peek(toks, amount.pos).value),
                  line |-> tok.line, column |-> tok.column])
         ELSE Ok(amount.pos,
                 [type |-> "Move", amount |-> amount.node,
                  direction |-> <<"r", "i", "g", "h", "t">>,
                  line |-> tok.line, column |-> tok.column]))

\* Parser.rotateCommand
RotateCommand(toks, p) ==
  LET tok == Previous(toks, p)
  IN Try(Primary(toks, p), LAMBDA angle :
         Ok(angle.pos, [type |-> "Rotate", angle |-> angle.node,
                        line |-> tok.line, column |-> tok.column]))

\* Parser.scaleCommand
ScaleCommand(toks, p) ==
  LET tok == Previous(toks, p)
  IN Try(Primary(toks, p), LAMBDA factor :
         Ok(factor.pos, [type |-> "Scale", factor |-> factor.node,
                         line |-> tok.line, column |-> tok.column]))

\* Parser.fadeCommand
FadeCommand(toks, p) ==
  LET tok == Previous(toks, p)
  IN Try(Primary(toks, p), LAMBDA amount :
         Ok(amount.pos, [type |-> "Fade", amount |-> amount.node,
                         line |-> tok.line, column |-> tok.column]))

\* the while loop of Parser.animateBlock
RECURSIVE AnimationList(_, _, _)
AnimationList(toks, p, animations) ==
  IF ~Check(toks, p, "RBRACE") /\ ~IsAtEnd(toks, p)
  THEN IF Match(toks, p, {"MOVE", "ROTATE", "SCALE", "FADE"})
       THEN Try(CASE Peek(toks, p).type = "MOVE"   -> MoveCommand(toks, p + 1)
                  [] Peek(toks, p).type = "ROTATE" -> RotateCommand(toks, p + 1)
                  [] Peek(toks, p).type = "SCALE"  -> ScaleCommand(toks, p + 1)
                  [] Peek(toks, p).type = "FADE"   -> FadeCommand(toks, p + 1),
                LAMBDA cmd :
                  AnimationList(toks, cmd.pos, Append(animations, cmd.node)))
       ELSE AnimationList(toks, ParserAdvance(toks, p), animations)
  ELSE Ok(p, animations)

\* Parser.animateBlock
AnimateBlock(toks, p) ==
  LET tok == Previous(toks, p)
  IN Try(Consume(toks, p, "LBRACE", <<"Expected { after animate">>), LAMBDA lb :
     Try(AnimationList(toks, lb.pos, <<>>), LAMBDA animations :
     Try(Consume(toks, animations.pos, "RBRACE", <<"Expected } after animate block">>),
         LAMBDA rb :
     Ok(rb.pos, [type |-> "AnimateBlock", animations |-> animations.node,
                 line |-> tok.line, column |-> tok.column]))))

\* Parser.sceneBlock
SceneBlock(toks, p) ==
  LET tok == Previous(toks, p)
  IN Try(Consume(toks, p, "IDENTIFIER", <<"Expected scene name">>), LAMBDA name :
     Try(Consume(toks, name.pos, "LBRACE", <<"Expected { after scene name">>),
         LAMBDA lb :
     Try(Block(toks, lb.pos, <<"Expected } after scene body">>), LAMBDA body :
     Ok(body.pos, [type |-> "SceneBlock", name |-> name.node.value,
                   body |-> body.node,
                   line |-> tok.line, column |-> tok.column]))))

\* Parser.expressionStatement
ExpressionStatement(toks, p) ==
  Try(Expression(toks, p), LAMBDA expr :
      Ok(expr.pos, [type |-> "ExpressionStatement", expression |-> expr.node,
                    line |-> expr.node.line, column |-> expr.node.column]))

\* Parser.statement
Statement(toks, p) ==
  IF Match(toks, p, {"LET"}) THEN LetStatement(toks, p + 1)
  ELSE IF Match(toks, p, {"FN"}) THEN FunctionDeclaration(toks, p + 1)
  ELSE IF Match(toks, p, {"RETURN"}) THEN ReturnStatement(toks, p + 1)
  ELSE IF Match(toks, p, {"IF"}) THEN IfStatement(toks, p + 1)
  ELSE IF Match(toks, p, {"REPEAT"}) THEN RepeatStatement(toks, p + 1)
  ELSE IF Match(toks, p, {"ANIMATE"}) THEN AnimateBlock(toks, p + 1)
  ELSE IF Match(toks, p, {"SCENE"}) THEN SceneBlock(toks, p + 1)
  ELSE ExpressionStatement(toks, p)

\* Parser.parse as one function of the tokens: the body of the Program, the
\* messages written with console.error and the cursor at each ParseError
RECURSIVE ParseLoop(_, _, _, _, _)
ParseLoop(toks, p, body, logged, thrown) ==
  IF ~IsAtEnd(toks, p)
  THEN LET Continue(st) ==
             IF st.ok
             THEN ParseLoop(toks, st.pos, Append(body, st.node), logged, thrown)
             ELSE ParseLoop(toks, Synchronize(toks, st.pos), body,
                            Append(logged, st.err.message), Append(thrown, st.pos))
       IN Continue(Statement(toks, p))
  ELSE [body |-> body, console |-> logged, thrownAt |-> thrown, current |-> p]

Program(body) == [type |-> "Program", body |-> body, line |-> 1, column |-> 1]

Parse(toks) == ParseLoop(toks, 0, <<>>, <<>>, <<>>)

-----------------------------------------------------------------------------
(* SemanticAnalyzer.  Its state is the record [scopes, errors]; a frame is   *)
(* a function from names to declarations.                                    *)

\* new SemanticError(message, line, column): message is the full Error.message
SemanticError(message, line, column) ==
  [message |-> <<"Semantic error at line ">> \o NumStr(line) \o <<", column ">>
               \o NumStr(column) \o <<": ">> \o message,
   line |-> line, column |-> column]

\* the object literal {} that enterScope pushes
EmptyFrame == [n \in {} |-> Null]

\* new SemanticAnalyzer(): the constructor enters the global scope
NewAnalyzer == [scopes |-> <<EmptyFrame>>, errors |-> <<>>]

\* A method of the analyzer that is entered in the state A and returns in the
\* state `after`.  An analyzer that keeps the states in which its methods were
\* entered (the field `entered`, which analyze itself does not have) notes A:
\* these are the states in which a call can exhaust the stack of the host.
AnalyzerEntered(A, after) ==
  IF "entered" \in DOMAIN A
  THEN [after EXCEPT !.entered = @ \cup {[scopes |-> A.scopes, errors |-> A.errors]}]
  ELSE after

\* SemanticAnalyzer.enterScope
EnterScope(A) == AnalyzerEntered(A, [A EXCEPT !.scopes = Append(@, EmptyFrame)])

\* an exit that pops nothing
ExitScopeKeeping(A) == A

\* SemanticAnalyzer.exitScope
ExitScope(A) == AnalyzerEntered(A, [A EXCEPT !.scopes = SubSeq(@, 1, Len(@) - 1)])

\* the truth of scope[name]: an own entry, or a property the frame inherits
FrameHas(frame, name) == name \in DOMAIN frame \/ name \in InheritedKeys

\* declare without the test of scope[name]: a later declaration overwrites
DeclareOverwrite(A, name, type, line, column) ==
  [A EXCEPT !.scopes[Len(A.scopes)] =
     (name :> [type |-> type, line |-> line, column |-> column]) @@ @]

\* declare with the test made on every frame of the chain: a name that an
\* outer frame holds cannot be declared again
DeclareNoShadowing(A, name, type, line, column) ==
  IF \E i \in DOMAIN A.scopes : FrameHas(A.scopes[i], name)
  THEN [A EXCEPT !.errors =
          Append(@, SemanticError(<<"Variable '">> \o name
                                    \o <<"' is already declared in this scope">>,
                                  line, column))]
  ELSE [A EXCEPT !.scopes[Len(A.scopes)] =
          (name :> [type |-> type, line |-> line, column |-> column]) @@ @]

\* SemanticAnalyzer.declare
Declare(A, name, type, line, column) ==
  AnalyzerEntered(A,
    LET top == Len(A.scopes)
    IN IF FrameHas(A.scopes[top], name)
       THEN [A EXCEPT !.errors =
               Append(@, SemanticError(<<"Variable '">> \o name
                                         \o <<"' is already declared in this scope">>,
                                       line, column))]
       ELSE [A EXCEPT !.scopes[top] =
               (name :> [type |-> type, line |-> line, column |-> column]) @@ @])

\* whether the loop of SemanticAnalyzer.resolve finds the name in some frame
Resolves(A, name) == \E i \in DOMAIN A.scopes : FrameHas(A.scopes[i], name)

\* SemanticAnalyzer.resolve
Resolve(A, name, line, column) ==
  AnalyzerEntered(A,
    IF Resolves(A, name) THEN A
    ELSE [A EXCEPT !.errors =
            Append(@, SemanticError(<<"Undefined variable '">> \o name \o <<"'">>,
                                    line, column))])

RECURSIVE AnalyzeExpression(_, _), AnalyzeExpressions(_, _),
          AnalyzeStatement(_, _), AnalyzeStatements(_, _)

\* a loop `for (const e of exprs) this.analyzeExpression(e)`
AnalyzeExpressions(A, exprs) ==
  IF exprs = <<>> THEN A
  ELSE AnalyzeExpressions(AnalyzeExpression(A, Head(exprs)), Tail(exprs))

\* the x and y of each point, in order
RECURSIVE PointCoordinates(_)
PointCoordinates(points) ==
  IF points = <<>> THEN <<>>
  ELSE <<Head(points).x, Head(points).y>> \o PointCoordinates(Tail(points))

\* SemanticAnalyzer.analyzeExpression
AnalyzeExpression(A, expr) ==
  AnalyzerEntered(A,
    CASE expr.type = "Identifier" ->
           Resolve(A, expr.name, expr.line, expr.column)
      [] expr.type = "BinaryExpression" ->
           AnalyzeExpressions(A, <<expr.left, expr.right>>)
      [] expr.type = "CallExpression" ->
           AnalyzeExpressions(A, <<expr.callee>> \o expr.arguments)
      [] expr.type = "Circle" ->
           AnalyzeExpressions(A, <<expr.position.x, expr.position.y,
                                   expr.size, expr.color>>)
      [] expr.type = "Rect" ->
           AnalyzeExpressions(A, <<expr.position.x, expr.position.y,
                                   expr.width, expr.height, expr.color>>)
      [] expr.type = "Line" ->
           AnalyzeExpressions(A, <<expr.start.x, expr.start.y,
                                   expr.end.x, expr.end.y, expr.color>>)
      [] expr.type = "Triangle" ->
           AnalyzeExpressions(A, PointCoordinates(expr.points) \o <<expr.color>>)
      [] OTHER -> A)

\* a loop `for (const s of stmts) this.analyzeStatement(s)`
AnalyzeStatements(A, stmts) ==
  IF stmts = <<>> THEN A
  ELSE AnalyzeStatements(AnalyzeStatement(A, Head(stmts)), Tail(stmts))

\* SemanticAnalyzer.analyzeLetStatement
AnalyzeLetStatement(A, stmt) ==
  Declare(AnalyzeExpression(A, stmt.value), stmt.identifier.name, "variable",
          stmt.identifier.line, stmt.identifier.column)

\* the loop of analyzeFunctionDeclaration that declares the parameters
RECURSIVE DeclareParameters(_, _)
DeclareParameters(A, parameters) ==
  IF parameters = <<>> THEN A
  ELSE DeclareParameters(Declare(A, Head(parameters).name, "parameter",
                                 Head(parameters).line, Head(parameters).column),
                         Tail(parameters))

\* SemanticAnalyzer.analyzeFunctionDeclaration
AnalyzeFunctionDeclaration(A, stmt) ==
  LET declared == Declare(A, stmt.name.name, "function",
                          stmt.name.line, stmt.name.column)
      inside   == DeclareParameters(EnterScope(declared), stmt.parameters)
  IN ExitScope(AnalyzeStatements(inside, stmt.body))

\* an analysis of an animate block that resolves the magnitudes of its commands
AnalyzeAnimateBlockResolving(A, stmt) ==
  AnalyzeExpressions(A,
    [i \in DOMAIN stmt.animations |->
       CASE stmt.animations[i].type = "Rotate" -> stmt.animations[i].angle
         [] stmt.animations[i].type = "Scale" -> stmt.animations[i].factor
         [] OTHER -> stmt.animations[i].amount])

\* SemanticAnalyzer.analyzeStatement, case ANIMATE_BLOCK: nothing but break
AnalyzeAnimateBlock(A, stmt) == A

\* SemanticAnalyzer.analyzeStatement
AnalyzeStatement(A, stmt) ==
  AnalyzerEntered(A,
    CASE stmt.type = "LetStatement" -> AnalyzeLetStatement(A, stmt)
      [] stmt.type = "FunctionDeclaration" -> AnalyzeFunctionDeclaration(A, stmt)
      [] stmt.type = "ReturnStatement" ->
           IF stmt.value # None THEN AnalyzeExpression(A, stmt.value[1]) ELSE A
      [] stmt.type = "IfStatement" ->
           LET afterThen ==
                 AnalyzeStatements(AnalyzeExpression(A, stmt.condition), stmt.thenBranch)
           IN IF stmt.elseBranch # None
              THEN AnalyzeStatements(afterThen, stmt.elseBranch[1])
              ELSE afterThen
      [] stmt.type = "RepeatStatement" ->
           AnalyzeStatements(AnalyzeExpression(A, stmt.times), stmt.body)
      [] stmt.type = "AnimateBlock" -> AnalyzeAnimateBlock(A, stmt)
      [] stmt.type = "SceneBlock" ->
           ExitScope(AnalyzeStatements(EnterScope(A), stmt.body))
      [] stmt.type = "ExpressionStatement" -> AnalyzeExpression(A, stmt.expression)
      [] OTHER -> A)

\* SemanticAnalyzer.analyze on a fresh analyzer, as one function of the Program
Analyze(program) == AnalyzeStatements(NewAnalyzer, program.body).errors

-----------------------------------------------------------------------------
(* CodeGenerator.  Its state is the record [output, indent].                 *)

\* '  '.repeat(n)
RECURSIVE IndentText(_)
IndentText(n) == IF n <= 0 THEN <<>> ELSE <<"  ">> \o IndentText(n - 1)

\* A method of the generator that is entered in the state G and returns in the
\* state `after`.  A generator that keeps the states in which its methods
\* were entered (the field `entered`, which generate itself does not have)
\* notes G, as the length of the output, which only grows, and the indent.
GeneratorEntered(G, after) ==
  IF "entered" \in DOMAIN G
  THEN [after EXCEPT !.entered = @ \cup {<<Len(G.output), G.indent>>}]
  ELSE after

\* CodeGenerator.emit
Emit(G, code) == GeneratorEntered(G, [G EXCEPT !.output = @ \o code])

\* CodeGenerator.emitLine
EmitLine(G, code) == Emit(G, IndentText(G.indent) \o code \o <<"\n">>)

\* CodeGenerator.emitIndent
EmitIndent(G) == Emit(G, IndentText(G.indent))

\* this.indent-- left out: the indent stays
IndentKept(G) == G

\* this.indent++ / this.indent--
IndentMore(G) == [G EXCEPT !.indent = @ + 1]
IndentLess(G) == [G EXCEPT !.indent = @ - 1]

\* The methods of the generator below are given as the steps they take on
\* `this`, in order.  A step is emit(code), emitLine(code), emitIndent(),
\* this.indent++, this.indent--, or the entry of generateStatement or
\* generateExpression, which changes nothing.
DoEmit(code) == [step |-> "emit", code |-> code]
DoEmitLine(code) == [step |-> "emitLine", code |-> code]
DoEmitIndent == [step |-> "emitIndent", code |-> <<>>]
DoIndentMore == [step |-> "indent++", code |-> <<>>]
DoIndentLess == [step |-> "indent--", code |-> <<>>]
DoEnter == [step |-> "enter", code |-> <<>>]

\* the generator in the state G takes one step
PerformStep(G, s) ==
  CASE s.step = "emit" -> Emit(G, s.code)
    [] s.step = "emitLine" -> EmitLine(G, s.code)
    [] s.step = "emitIndent" -> EmitIndent(G)
    [] s.step = "indent++" -> IndentMore(G)
    [] s.step = "indent--" -> IndentLess(G)
    [] OTHER -> GeneratorEntered(G, G)

\* the generator in the state G takes the steps lo..hi of a list, in order:
\* the first half from G, then the second half from the state that reaches
RECURSIVE PerformRange(_, _, _, _)
PerformRange(G, steps, lo, hi) ==
  IF lo > hi THEN G
  ELSE IF lo = hi THEN PerformStep(G, steps[lo])
  ELSE CHOOSE after \in {PerformRange(g, steps, (lo + hi) \div 2 + 1, hi) :
                           g \in {PerformRange(G, steps, lo, (lo + hi) \div 2)}} : TRUE

\* the generator in the state G takes the steps of a list, in order
Perform(G, steps) == PerformRange(G, steps, 1, Len(steps))

\* emitLine for each line of a list
EmitLines(lines) == [i \in 1..Len(lines) |-> DoEmitLine(<<lines[i]>>)]

\* the exponential notation of toString: d[.ddd]e+x or d[.ddd]e-x
Exponential(digits, sign, exponent) ==
  (IF Len(digits) = 1 THEN digits ELSE <<digits[1]>> \o <<".">> \o Tail(digits))
  \o <<"e">> \o sign \o NumStr(exponent)

\* Number.prototype.toString of a parsed NUMBER: plain digits from 1e-6 up to
\* (not including) 1e21, the exponential notation outside
NumberToString(v) ==
  IF v.int # <<"0">>
  THEN IF Len(v.int) <= 21 \/ ~IsDigit(v.int[1])
       THEN (IF v.frac = <<>> THEN v.int ELSE v.int \o <<".">> \o v.frac)
       ELSE Exponential(StripTrailingZeros(v.int \o v.frac), <<"+">>, Len(v.int) - 1)
  ELSE IF v.frac = <<>> THEN v.int
  ELSE IF Len(v.frac) - Len(StripLeadingZeros(v.frac)) < 6
       THEN v.int \o <<".">> \o v.frac
       ELSE Exponential(StripLeadingZeros(v.frac), <<"-">>,
                        Len(v.frac) - Len(StripLeadingZeros(v.frac)) + 1)

\* parameters.map(p => p.name).join(', ')
RECURSIVE JoinNames(_)
JoinNames(ids) ==
  IF ids = <<>> THEN <<>>
  ELSE IF Len(ids) = 1 THEN ids[1].name
  ELSE ids[1].name \o <<", ">> \o JoinNames(Tail(ids))

\* the preamble CodeGenerator.generate emits, up to the opening of main
Preamble ==
  << DoEmitLine(<<"// MFlow compiled output - Created by Mehdi">>),
     DoEmitLine(<<"const canvas = document.getElementById(\"mflow-canvas\");">>),
     DoEmitLine(<<"const ctx = canvas.getContext(\"2d\");">>),
     DoEmitLine(<<"">>),
     DoEmitLine(<<"// Animation state">>),
     DoEmitLine(<<"let animationState = {">>),
     DoIndentMore,
     DoEmitLine(<<"x: 0,">>),
     DoEmitLine(<<"y: 0,">>),
     DoEmitLine(<<"rotation: 0,">>),
     DoEmitLine(<<"scale: 1,">>),
     DoEmitLine(<<"opacity: 1">>),
     DoIndentLess,
     DoEmitLine(<<"};">>),
     DoEmitLine(<<"">>),
     DoEmitLine(<<"// Helper functions">>),
     DoEmitLine(<<"function resetTransform() {">>),
     DoIndentMore,
     DoEmitLine(<<"ctx.setTransform(1, 0, 0, 1, 0, 0);">>),
     DoIndentLess,
     DoEmitLine(<<"}">>),
     DoEmitLine(<<"">>),
     DoEmitLine(<<"function applyTransform(x, y) {">>),
     DoIndentMore,
     DoEmitLine(<<"ctx.translate(x + animationState.x, y + animationState.y);">>),
     DoEmitLine(<<"ctx.rotate(animationState.rotation * Math.PI / 180);">>),
     DoEmitLine(<<"ctx.scale(animationState.scale, animationState.scale);">>),
     DoEmitLine(<<"ctx.globalAlpha = animationState.opacity;">>),
     DoIndentLess,
     DoEmitLine(<<"}">>),
     DoEmitLine(<<"">>),
     DoEmitLine(<<"// Clear canvas">>),
     DoEmitLine(<<"function clear() {">>),
     DoIndentMore,
     DoEmitLine(<<"ctx.clearRect(0, 0, canvas.width, canvas.height);">>),
     DoIndentLess,
     DoEmitLine(<<"}">>),
     DoEmitLine(<<"">>),
     DoEmitLine(<<"// Main program">>),
     DoEmitLine(<<"(function main() {">>) >>

RECURSIVE GenerateExpression(_), GenerateArguments(_, _),
          GenerateStatement(_), GenerateStatements(_),
          GenerateTrianglePoints(_, _)

\* emitIndent, emit(prefix), generateExpression(expr), emit(suffix)
EmitWith(prefix, expr, suffix) ==
  <<DoEmitIndent, DoEmit(<<prefix>>)>> \o GenerateExpression(expr)
    \o <<DoEmit(<<suffix>>)>>

\* emitIndent, emit(open), x, emit(', '), y, emit(');\n')
EmitPoint(open, point) ==
  <<DoEmitIndent, DoEmit(<<open>>)>> \o GenerateExpression(point.x)
    \o <<DoEmit(<<", ">>)>> \o GenerateExpression(point.y)
    \o <<DoEmit(<<");\n">>)>>

\* the closing of every shape: indent--, emitIndent, emit('})()')
CloseShape == <<DoIndentLess, DoEmitIndent, DoEmit(<<"})()">>)>>

\* the opening of every shape: emit('(function() {\n'), indent++, ctx.save()
OpenShape ==
  <<DoEmit(<<"(function() {\n">>), DoIndentMore, DoEmitLine(<<"ctx.save();">>)>>

\* CodeGenerator.generateCircle
GenerateCircle(expr) ==
  OpenShape
    \o EmitWith("const x = ", expr.position.x, ";\n")
    \o EmitWith("const y = ", expr.position.y, ";\n")
    \o EmitWith("const size = ", expr.size, ";\n")
    \o EmitWith("const color = ", expr.color, ";\n")
    \o EmitLines(<<"applyTransform(x, y);",
                   "ctx.beginPath();",
                   "ctx.arc(0, 0, size, 0, Math.PI * 2);",
                   "ctx.fillStyle = color;",
                   "ctx.fill();",
                   "ctx.restore();">>)
    \o CloseShape

\* CodeGenerator.generateRect
GenerateRect(expr) ==
  OpenShape
    \o EmitWith("const x = ", expr.position.x, ";\n")
    \o EmitWith("const y = ", expr.position.y, ";\n")
    \o EmitWith("const w = ", expr.width, ";\n")
    \o EmitWith("const h = ", expr.height, ";\n")
    \o EmitWith("const color = ", expr.color, ";\n")
    \o EmitLines(<<"applyTransform(x, y);",
                   "ctx.fillStyle = color;",
                   "ctx.fillRect(-w/2, -h/2, w, h);",
                   "ctx.restore();">>)
    \o CloseShape

\* CodeGenerator.generateLine
GenerateLine(expr) ==
  OpenShape
    \o EmitWith("const color = ", expr.color, ";\n")
    \o EmitLines(<<"ctx.strokeStyle = color;", "ctx.beginPath();">>)
    \o EmitPoint("ctx.moveTo(", expr.start)
    \o EmitPoint("ctx.lineTo(", expr.end)
    \o EmitLines(<<"ctx.stroke();", "ctx.restore();">>)
    \o CloseShape

\* the forEach of generateTriangle over the points
GenerateTrianglePoints(points, i) ==
  IF i > Len(points) THEN <<>>
  ELSE EmitPoint(IF i = 1 THEN "ctx.moveTo(" ELSE "ctx.lineTo(", points[i])
         \o GenerateTrianglePoints(points, i + 1)

\* CodeGenerator.generateTriangle
GenerateTriangle(expr) ==
  OpenShape
    \o EmitWith("const color = ", expr.color, ";\n")
    \o EmitLines(<<"ctx.fillStyle = color;", "ctx.beginPath();">>)
    \o GenerateTrianglePoints(expr.points, 1)
    \o EmitLines(<<"ctx.closePath();", "ctx.fill();", "ctx.restore();">>)
    \o CloseShape

\* the forEach of generateExpression over a call's arguments
GenerateArguments(args, i) ==
  IF i > Len(args) THEN <<>>
  ELSE (IF i > 1 THEN <<DoEmit(<<", ">>)>> ELSE <<>>)
         \o GenerateExpression(args[i])
         \o GenerateArguments(args, i + 1)

\* CodeGenerator.generateExpression
GenerateExpression(expr) ==
  <<DoEnter>> \o
    CASE expr.type = "NumberLiteral" -> <<DoEmit(NumberToString(expr.value))>>
      [] expr.type = "StringLiteral" -> <<DoEmit(<<"\"">> \o expr.value \o <<"\"">>)>>
      [] expr.type = "ColorLiteral" -> <<DoEmit(<<"\"">> \o expr.value \o <<"\"">>)>>
      [] expr.type = "Identifier" -> <<DoEmit(expr.name)>>
      [] expr.type = "BinaryExpression" ->
           <<DoEmit(<<"(">>)>> \o GenerateExpression(expr.left)
             \o <<DoEmit(<<" ">> \o expr.operator \o <<" ">>)>>
             \o GenerateExpression(expr.right)
             \o <<DoEmit(<<")">>)>>
      [] expr.type = "CallExpression" ->
           GenerateExpression(expr.callee) \o <<DoEmit(<<"(">>)>>
             \o GenerateArguments(expr.arguments, 1)
             \o <<DoEmit(<<")">>)>>
      [] expr.type = "Circle" -> GenerateCircle(expr)
      [] expr.type = "Rect" -> GenerateRect(expr)
      [] expr.type = "Line" -> GenerateLine(expr)
      [] expr.type = "Triangle" -> GenerateTriangle(expr)
      [] OTHER -> <<>>

\* a loop `for (const s of stmts) this.generateStatement(s)`
GenerateStatements(stmts) ==
  IF stmts = <<>> THEN <<>>
  ELSE GenerateStatement(Head(stmts)) \o GenerateStatements(Tail(stmts))

\* CodeGenerator.generateLetStatement
GenerateLetStatement(stmt) ==
  <<DoEmitIndent, DoEmit(<<"let ">> \o stmt.identifier.name \o <<" = ">>)>>
    \o GenerateExpression(stmt.value)
    \o <<DoEmit(<<";\n">>)>>

\* CodeGenerator.generateFunctionDeclaration
GenerateFunctionDeclaration(stmt) ==
  <<DoEmitIndent, DoEmit(<<"function ">> \o stmt.name.name \o <<"(">>),
    DoEmit(JoinNames(stmt.parameters)), DoEmit(<<") {\n">>), DoIndentMore>>
    \o GenerateStatements(stmt.body)
    \o <<DoIndentLess, DoEmitLine(<<"}">>)>>

\* CodeGenerator.generateIfStatement
GenerateIfStatement(stmt) ==
  <<DoEmitIndent, DoEmit(<<"if (">>)>> \o GenerateExpression(stmt.condition)
    \o <<DoEmit(<<") {\n">>), DoIndentMore>>
    \o GenerateStatements(stmt.thenBranch)
    \o <<DoIndentLess>>
    \o (IF stmt.elseBranch # None
        THEN <<DoEmitLine(<<"} else {">>), DoIndentMore>>
               \o GenerateStatements(stmt.elseBranch[1])
               \o <<DoIndentLess>>
        ELSE <<>>)
    \o <<DoEmitLine(<<"}">>)>>

\* CodeGenerator.generateRepeatStatement
GenerateRepeatStatement(stmt) ==
  <<DoEmitIndent, DoEmit(<<"for (let __i = 0; __i < ">>)>>
    \o GenerateExpression(stmt.times)
    \o <<DoEmit(<<"; __i++) {\n">>), DoIndentMore>>
    \o GenerateStatements(stmt.body)
    \o <<DoIndentLess, DoEmitLine(<<"}">>)>>

\* a sign that never subtracts
MoveSignAdding(direction) == "+"

\* the axis and sign generateAnimationCommand picks for a move direction
MoveAxis(direction) ==
  IF direction = <<"l", "e", "f", "t">> \/ direction = <<"r", "i", "g", "h", "t">>
  THEN "x" ELSE "y"

MoveSign(direction) ==
  IF direction = <<"l", "e", "f", "t">> \/ direction = <<"u", "p">>
  THEN "-" ELSE "+"

\* CodeGenerator.generateAnimationCommand
GenerateAnimationCommand(cmd) ==
  CASE cmd.type = "Move" ->
         <<DoEmitIndent,
           DoEmit(<<"animationState.", MoveAxis(cmd.direction), " ",
                    MoveSign(cmd.direction), "= ">>)>>
           \o GenerateExpression(cmd.amount)
           \o <<DoEmit(<<";\n">>)>>
    [] cmd.type = "Rotate" ->
         EmitWith("animationState.rotation += ", cmd.angle, ";\n")
    [] cmd.type = "Scale" ->
         EmitWith("animationState.scale *= ", cmd.factor, ";\n")
    [] cmd.type = "Fade" ->
         EmitWith("animationState.opacity -= ", cmd.amount, ";\n")
    [] OTHER -> <<>>

\* the loop of generateAnimateBlock over the commands
RECURSIVE GenerateAnimationCommands(_)
GenerateAnimationCommands(cmds) ==
  IF cmds = <<>> THEN <<>>
  ELSE GenerateAnimationCommand(Head(cmds)) \o GenerateAnimationCommands(Tail(cmds))

\* a routine that requests the next frame before it applies the commands
GenerateAnimateBlockRequestFirst(stmt) ==
  EmitLines(<<"// Animation loop", "function animate() {">>)
    \o <<DoIndentMore, DoEmitLine(<<"clear();">>),
         DoEmitLine(<<"requestAnimationFrame(animate);">>)>>
    \o GenerateAnimationCommands(stmt.animations)
    \o <<DoIndentLess>>
    \o EmitLines(<<"}", "animate();">>)

\* CodeGenerator.generateAnimateBlock
GenerateAnimateBlock(stmt) ==
  EmitLines(<<"// Animation loop", "function animate() {">>)
    \o <<DoIndentMore, DoEmitLine(<<"clear();">>)>>
    \o GenerateAnimationCommands(stmt.animations)
    \o <<DoEmitLine(<<"requestAnimationFrame(animate);">>), DoIndentLess>>
    \o EmitLines(<<"}", "animate();">>)

\* CodeGenerator.generateSceneBlock
GenerateSceneBlock(stmt) ==
  <<DoEmitLine(<<"// Scene: ">> \o stmt.name),
    DoEmitLine(<<"function scene_">> \o stmt.name \o <<"() {">>),
    DoIndentMore>>
    \o GenerateStatements(stmt.body)
    \o <<DoIndentLess, DoEmitLine(<<"}">>),
         DoEmitLine(<<"scene_">> \o stmt.name \o <<"();">>)>>

\* CodeGenerator.generateStatement
GenerateStatement(stmt) ==
  <<DoEnter>> \o
    CASE stmt.type = "LetStatement" -> GenerateLetStatement(stmt)
      [] stmt.type = "FunctionDeclaration" -> GenerateFunctionDeclaration(stmt)
      [] stmt.type = "ReturnStatement" ->
           <<DoEmitIndent, DoEmit(<<"return">>)>>
             \o (IF stmt.value # None
                 THEN <<DoEmit(<<" ">>)>> \o GenerateExpression(stmt.value[1])
                 ELSE <<>>)
             \o <<DoEmit(<<";\n">>)>>
      [] stmt.type = "IfStatement" -> GenerateIfStatement(stmt)
      [] stmt.type = "RepeatStatement" -> GenerateRepeatStatement(stmt)
      [] stmt.type = "AnimateBlock" -> GenerateAnimateBlock(stmt)
      [] stmt.type = "SceneBlock" -> GenerateSceneBlock(stmt)
      [] stmt.type = "ExpressionStatement" ->
           <<DoEmitIndent>> \o GenerateExpression(stmt.expression)
             \o <<DoEmit(<<";\n">>)>>
      [] OTHER -> <<>>

\* new CodeGenerator()
NewGenerator == [output |-> <<>>, indent |-> 0]

\* CodeGenerator.generate: the generator's state when it returns this.output
Generate(G, program) ==
  Perform([G EXCEPT !.output = <<>>, !.indent = 0],
          Preamble \o <<DoIndentMore>> \o GenerateStatements(program.body)
            \o <<DoIndentLess, DoEmitLine(<<"})();">>)>>)

-----------------------------------------------------------------------------
(* MFlowCompiler.compile: the results it returns *)

\* the messages of a list of errors: errors.map(e => e.message)
RECURSIVE Messages(_)
Messages(errs) ==
  IF errs = <<>> THEN <<>> ELSE <<Head(errs).message>> \o Messages(Tail(errs))

\* the test of the errors as `semanticErrors.length > 1`
MoreThanOneError(semanticErrors) == Len(semanticErrors) > 1

\* if (semanticErrors.length > 0)
HasSemanticErrors(semanticErrors) == Len(semanticErrors) > 0

\* { success: false, errors: semanticErrors.map(e => e.message) }
SemanticFailure(semanticErrors) ==
  [success |-> FALSE, output |-> None, errors |-> Some(Messages(semanticErrors))]

\* a success that carries an (empty) list of errors beside the output
SuccessWithErrors(text) ==
  [success |-> TRUE, output |-> Some(text), errors |-> Some(<<>>)]

\* { success: true, output }
Success(text) == [success |-> TRUE, output |-> Some(text), errors |-> None]

\* the TypeError of `this.input[0]` in the Lexer constructor when the source
\* argument is undefined
TypeErrorOfUndefined ==
  [isError |-> TRUE,
   message |-> <<"Cannot read properties of undefined (reading '0')">>,
   string |-> <<"TypeError: Cannot read properties of undefined (reading '0')">>]

\* the RangeError of the host when the recursion of a stage exhausts its stack
StackExhausted ==
  [isError |-> TRUE,
   message |-> <<"Maximum call stack size exceeded">>,
   string |-> <<"RangeError: Maximum call stack size exceeded">>]

\* error instanceof Error ? error.message : String(error)
ErrorText(error) == IF error.isError THEN error.message ELSE error.string

\* a handler that lists the message and the string of the exception
CaughtBoth(error) ==
  [success |-> FALSE, output |-> None,
   errors |-> Some(<<error.message, error.string>>)]

\* the catch of compile: { success: false, errors: [<the text of the error>] }
Caught(error) ==
  [success |-> FALSE, output |-> None, errors |-> Some(<<ErrorText(error)>>)]

\* MFlowCompiler.compile as one function of the source: the result of a call
\* that builds a new Lexer, Parser, SemanticAnalyzer and CodeGenerator
Compile(sourceCode) ==
  LET Gate(program, semanticErrors) ==
        IF HasSemanticErrors(semanticErrors) THEN SemanticFailure(semanticErrors)
        ELSE Success(Generate(NewGenerator, program).output)
      Analyzed(program) == Gate(program, Analyze(program))
  IN Analyzed(Program(Parse(Tokenize(sourceCode)).body))

-----------------------------------------------------------------------------
(* Inputs *)

\* every text of at most n characters over an alphabet
Texts(alphabet, n) == UNION {[1..k -> alphabet] : k \in 0..n}

\* characters of the short texts given to the lexer alone
LexerAlphabet == {"a", "1", ".", "\"", "\\", "#", "/", "\n", " ", "=", "!", "@"}

\* characters of the short texts given to compile
CompileAlphabet == {"a", "1", "=", "(", ")", "+", "\n"}

\* whole programs compiled besides the short texts
SamplePrograms ==
  { <<"l", "e", "t", " ", "x", " ", "=", " ", "1", "0", "0">>, \* let x = 100
    <<"l", "e", "t", " ", "x", " ", "=", " ", "y">>, \* let x = y
    <<"l", "e", "t", " ", "x", " ", "=", " ", "x">>, \* let x = x
    <<"l", "e", "t", " ", "=", " ", "5">>, \* let = 5
    <<"l", "e", "t", " ", "=", " ", "5", "\n", "7">>, \* let = 5\n7
    <<"l", "e", "t", " ", "=", " ", "5", "\n", "l", "e", "t", " ", "y", " ", "=", " ", "2">>, \* let = 5\nlet y = 2
    <<"y", "\n", "l", "e", "t", " ", "x", " ", "=", " ", "y", " ", "+", " ", "z">>, \* y\nlet x = y + z
    <<"f", "(", ")", "\n", "f", "n", " ", "f", "(", ")", "{", " ", "}">>, \* f()\nfn f(){ }
    <<"f", "n", " ", "f", "(", "a", ")", "{", " ", "r", "e", "t", "u", "r", "n", " ", "a", " ", "}", "\n", "f", "(", "1", ")">>, \* fn f(a){ return a }\nf(1)
    <<"f", "n", " ", "f", "(", ")", "{", " ", "l", "e", "t", " ", "a", " ", "=", " ", "1", " ", "l", "e", "t", " ", "a", " ", "=", " ", "2", " ", "}">>, \* fn f(){ let a = 1 let a = 2 }
    <<"f", "n", " ", "f", "(", ")", "{", " ", "i", "f", " ", "1", " ", "{", " ", "l", "e", "t", " ", "a", " ", "=", " ", "1", " ", "}", " ", "a", " ", "}">>, \* fn f(){ if 1 { let a = 1 } a }
    <<"c", "i", "r", "c", "l", "e", " ", "a", "t", " ", "(", "1", ",", "2", ")", " ", "s", "i", "z", "e", " ", "3", " ", "c", "o", "l", "o", "r", " ", "#", "A", "B", "C", "D", "E", "F">>, \* circle at (1,2) size 3 color #ABCDEF
    <<"c", "i", "r", "c", "l", "e", " ", "a", "t", " ", "(", "1", ",", "2", ")", " ", "c", "o", "l", "o", "r", " ", "#", "A", "B", "C", "D", "E", "F">>, \* circle at (1,2) color #ABCDEF
    <<"r", "e", "p", "e", "a", "t", " ", "3", " ", "{", " ", "c", "i", "r", "c", "l", "e", " ", "a", "t", " ", "(", "0", ",", "0", ")", " ", "s", "i", "z", "e", " ", "1", " ", "c", "o", "l", "o", "r", " ", "#", "0", "0", "0", "0", "0", "0", " ", "}">>, \* repeat 3 { circle at (0,0) size 1 color #000000 }
    <<"a", "n", "i", "m", "a", "t", "e", " ", "{", " ", "m", "o", "v", "e", " ", "5", " ", "l", "e", "f", "t", " ", "}">>, \* animate { move 5 left }
    <<"a", "n", "i", "m", "a", "t", "e", " ", "{", " ", "m", "o", "v", "e", " ", "5", " ", "l", "e", "f", "t", " ", "m", "o", "v", "e", " ", "a", " ", "r", "i", "g", "h", "t", " ", "m", "o", "v", "e", " ", "2", " ", "u", "p", " ", "m", "o", "v", "e", " ", "3", " ", "d", "o", "w", "n", " ", "m", "o", "v", "e", " ", "4", " ", "r", "o", "t", "a", "t", "e", " ", "6", " ", "s", "c", "a", "l", "e", " ", "7", " ", "f", "a", "d", "e", " ", "8", " ", "m", "o", "v", "e", " ", "1", " ", "L", "E", "F", "T", " ", "}">>, \* animate { move 5 left move a right move 2 up move 3 down move 4 rotate 6 scale 7 fade 8 move 1 LEFT }
    <<"s", "c", "e", "n", "e", " ", "s", " ", "{", " ", "l", "e", "t", " ", "a", " ", "=", " ", "1", " ", "}", "\n", "s", "c", "e", "n", "e", " ", "s", " ", "{", " ", "l", "e", "t", " ", "a", " ", "=", " ", "2", " ", "}">>, \* scene s { let a = 1 }\nscene s { let a = 2 }
    <<"r", "e", "c", "t", " ", "a", "t", " ", "(", "1", ",", "2", ")", " ", "w", "i", "d", "t", "h", " ", "3", " ", "h", "e", "i", "g", "h", "t", " ", "4", " ", "c", "o", "l", "o", "r", " ", "#", "f", "0", "0">>, \* rect at (1,2) width 3 height 4 color #f00
    <<"l", "i", "n", "e", " ", "(", "0", ",", "0", ")", " ", "(", "1", ",", "1", ")", " ", "c", "o", "l", "o", "r", " ", "#", "f", "0", "0">>, \* line (0,0) (1,1) color #f00
    <<"t", "r", "i", "a", "n", "g", "l", "e", " ", "(", "0", ",", "0", ")", " ", "(", "1", ",", "0", ")", " ", "(", "0", ",", "1", ")", " ", "c", "o", "l", "o", "r", " ", "#", "f", "0", "0">>, \* triangle (0,0) (1,0) (0,1) color #f00
    <<"a", "n", "i", "m", "a", "t", "e", " ", "{", " ", "m", "o", "v", "e", " ", "1", " ", "l", "e", "f", "t", " ", "}", "\n", "a", "n", "i", "m", "a", "t", "e", " ", "{", " ", "r", "o", "t", "a", "t", "e", " ", "2", " ", "}">>, \* animate { move 1 left }\nanimate { rotate 2 }
    <<"l", "e", "t", " ", "x", " ", "=", " ", "1", "\n", "l", "e", "t", " ", "y", " ", "=", " ", "2", "\n", "c", "i", "r", "c", "l", "e", " ", "a", "t", " ", "(", "x", ",", " ", "y", ")", " ", "s", "i", "z", "e", " ", "2", "0", " ", "c", "o", "l", "o", "r", " ", "#", "F", "F", "F", "F", "0", "0">>, \* let x = 1\nlet y = 2\ncircle at (x, y) size 20 color #FFFF00
    <<"l", "e", "t", " ", "w", " ", "=", " ", "1", "\n", "r", "e", "c", "t", " ", "a", "t", " ", "(", "1", ",", " ", "2", ")", " ", "w", "i", "d", "t", "h", " ", "w", " ", "h", "e", "i", "g", "h", "t", " ", "4", " ", "c", "o", "l", "o", "r", " ", "#", "f", "0", "0">>, \* let w = 1\nrect at (1, 2) width w height 4 color #f00
    <<"l", "e", "t", " ", "a", " ", "=", " ", "1", "\n", "c", "i", "r", "c", "l", "e", " ", "a", "t", " ", "(", "a", ",", " ", "a", ")", " ", "s", "i", "z", "e", " ", "a", " ", "c", "o", "l", "o", "r", " ", "#", "f", "0", "0">>, \* let a = 1\ncircle at (a, a) size a color #f00
    <<"f", "n", " ", "f", "(", ")", "{", " ", "i", "f", " ", "1", " ", "{", " ", "r", "e", "p", "e", "a", "t", " ", "2", " ", "{", " ", "c", "i", "r", "c", "l", "e", " ", "a", "t", " ", "(", "0", ",", "0", ")", " ", "s", "i", "z", "e", " ", "1", " ", "c", "o", "l", "o", "r", " ", "#", "0", "0", "0", " ", "}", " ", "}", " ", "e", "l", "s", "e", " ", "{", " ", "l", "e", "t", " ", "s", " ", "=", " ", "\"", "{", "\"", " ", "}", " ", "}">>, \* fn f(){ if 1 { repeat 2 { circle at (0,0) size 1 color #000 } } else { let s = "{" } }
    <<"l", "e", "t", " ", "s", " ", "=", " ", "\"", "a", "b", "\"">>, \* let s = "ab"
    <<"s", "c", "e", "n", "e", " ", "s", " ", "{", " ", "l", "e", "t", " ", "a", " ", "=", " ", "1", " ", "}">>, \* scene s { let a = 1 }
    <<"l", "e", "t", " ", "x", " ", "=", " ", "t", "o", "S", "t", "r", "i", "n", "g">>, \* let x = toString
    <<"c", "o", "n", "s", "t", "r", "u", "c", "t", "o", "r">>, \* constructor
    <<"l", "e", "t", " ", "s", " ", "=", " ", "\"", "a", "\\", "\"", "b", "\"">>, \* let s = a string holding an escaped quote
    <<"l", "e", "t", " ", "n", " ", "=", " ", "1", "\n", "l", "e", "t", " ", "s", " ", "=", " ", "\"", "\\", "\"", "{", "\"">>, \* let n = 1\nlet s = a string holding an escaped quote and a brace
    <<"/", "/", " ", "c", "\n", "l", "e", "t", " ", "x", " ", "=", " ", "1", ".", "5", "0">> } \* // c\nlet x = 1.50

\* the lines an analyzed program is made of: line k of the source holds
\* SourceLines[k] or is blank
SourceLines ==
  << <<"f", "(", ")">>, \* f()
     <<"f", "n", " ", "f", "(", ")", "{", " ", "}">>, \* fn f(){ }
     <<"f", "(", ")">>, \* f()
     <<"l", "e", "t", " ", "x", " ", "=", " ", "y">>, \* let x = y
     <<"l", "e", "t", " ", "x", " ", "=", " ", "x">>, \* let x = x
     <<"l", "e", "t", " ", "y", " ", "=", " ", "1">>, \* let y = 1
     <<"f", "n", " ", "g", "(", "p", ")", "{", " ", "l", "e", "t", " ", "a", " ", "=", " ", "1", " ", "l", "e", "t", " ", "a", " ", "=", " ", "2", " ", "}">>, \* fn g(p){ let a = 1 let a = 2 }
     <<"f", "n", " ", "h", "(", ")", "{", " ", "i", "f", " ", "1", " ", "{", " ", "l", "e", "t", " ", "a", " ", "=", " ", "1", " ", "}", " ", "a", " ", "l", "e", "t", " ", "a", " ", "=", " ", "2", " ", "}">>, \* fn h(){ if 1 { let a = 1 } a let a = 2 }
     <<"f", "n", " ", "k", "(", ")", "{", " ", "r", "e", "p", "e", "a", "t", " ", "2", " ", "{", " ", "l", "e", "t", " ", "b", " ", "=", " ", "1", " ", "}", " ", "b", " ", "l", "e", "t", " ", "b", " ", "=", " ", "2", " ", "}">>, \* fn k(){ repeat 2 { let b = 1 } b let b = 2 }
     <<"f", "n", " ", "m", "(", ")", "{", " ", "a", " ", "}">>, \* fn m(){ a }
     <<"i", "f", " ", "1", " ", "{", " ", "l", "e", "t", " ", "c", " ", "=", " ", "1", " ", "}", " ", "e", "l", "s", "e", " ", "{", " ", "l", "e", "t", " ", "d", " ", "=", " ", "2", " ", "}">>, \* if 1 { let c = 1 } else { let d = 2 }
     <<"c">>, \* c
     <<"l", "e", "t", " ", "x", " ", "=", " ", "t", "o", "S", "t", "r", "i", "n", "g">>, \* let x = toString
     <<"s", "c", "e", "n", "e", " ", "s", " ", "{", " ", "l", "e", "t", " ", "x", " ", "=", " ", "1", " ", "}">>, \* scene s { let x = 1 }
     <<"a", "n", "i", "m", "a", "t", "e", " ", "{", " ", "m", "o", "v", "e", " ", "q", " ", "l", "e", "f", "t", " ", "}">>, \* animate { move q left }
     <<"x">>, \* x
     <<"l", "e", "t", " ", "t", "o", "S", "t", "r", "i", "n", "g", " ", "=", " ", "1">>, \* let toString = 1
     <<"f", "n", " ", "n", "(", "x", ")", "{", " ", "l", "e", "t", " ", "y", " ", "=", " ", "2", " ", "a", "n", "i", "m", "a", "t", "e", " ", "{", " ", "r", "o", "t", "a", "t", "e", " ", "q", " ", "}", " ", "}">>, \* fn n(x){ let y = 2 animate { rotate q } }
     <<"s", "c", "e", "n", "e", " ", "t", " ", "{", " ", "i", "f", " ", "1", " ", "{", " ", "a", "n", "i", "m", "a", "t", "e", " ", "{", " ", "s", "c", "a", "l", "e", " ", "q", " ", "}", " ", "}", " ", "r", "e", "p", "e", "a", "t", " ", "2", " ", "{", " ", "a", "n", "i", "m", "a", "t", "e", " ", "{", " ", "f", "a", "d", "e", " ", "q", " ", "}", " ", "}", " ", "}">>, \* scene t { if 1 { animate { scale q } } repeat 2 { animate { fade q } } }
     <<"s", "c", "e", "n", "e", " ", "u", " ", "{", " ", "f", "n", " ", "w", "(", "p", ")", "{", " ", "l", "e", "t", " ", "p", " ", "=", " ", "1", " ", "r", " ", "}", " ", "r", " ", "}">> >> \* scene u { fn w(p){ let p = 1 r } r }

\* longest token sequence enumerated kind by kind (the closing EOF not counted)
MaxTokens == 4

\* most lines of SourceLines an analyzed program holds
MaxStatements == 4

\* token kinds of the enumerated token sequences, each with a text
ParserKinds ==
  {"IDENTIFIER", "NUMBER", "LET", "FN", "ASSIGN", "LPAREN", "RPAREN",
   "LBRACE", "RBRACE", "NEWLINE", "EOF"}

KindText(kind) ==
  CASE kind = "IDENTIFIER" -> <<"a">>
    [] kind = "NUMBER" -> <<"1">>
    [] kind = "LET" -> <<"l", "e", "t">>
    [] kind = "FN" -> <<"f", "n">>
    [] kind = "ASSIGN" -> <<"=">>
    [] kind = "LPAREN" -> <<"(">>
    [] kind = "RPAREN" -> <<")">>
    [] kind = "LBRACE" -> <<"{">>
    [] kind = "RBRACE" -> <<"}">>
    [] kind = "NEWLINE" -> <<"\n">>
    [] kind = "CIRCLE" -> <<"c", "i", "r", "c", "l", "e">>
    [] kind = "RECT" -> <<"r", "e", "c", "t">>
    [] kind = "LINE" -> <<"l", "i", "n", "e">>
    [] kind = "TRIANGLE" -> <<"t", "r", "i", "a", "n", "g", "l", "e">>
    [] kind = "AT" -> <<"a", "t">>
    [] kind = "SIZE" -> <<"s", "i", "z", "e">>
    [] kind = "WIDTH" -> <<"w", "i", "d", "t", "h">>
    [] kind = "HEIGHT" -> <<"h", "e", "i", "g", "h", "t">>
    [] kind = "COLOR_PROP" -> <<"c", "o", "l", "o", "r">>
    [] kind = "COLOR" -> <<"#", "f", "0", "0">>
    [] kind = "COMMA" -> <<",">>
    [] OTHER -> <<>>

\* the token sequence of a sequence of kinds, closed by an EOF token
TokensOfKinds(kinds) ==
  [i \in 1..(Len(kinds) + 1) |->
     IF i <= Len(kinds) THEN Token(kinds[i], KindText(kinds[i]), 1, i)
     ELSE Token("EOF", <<>>, 1, i)]

\* most clauses that follow the keyword of an enumerated shape
MaxClauses == 4

\* the clauses of the shape constructors, each as the kinds of its tokens
ShapeClauses ==
  { <<"AT", "LPAREN", "NUMBER", "COMMA", "IDENTIFIER", "RPAREN">>,
    <<"LPAREN", "NUMBER", "COMMA", "NUMBER", "RPAREN">>,
    <<"SIZE", "NUMBER">>,
    <<"WIDTH", "IDENTIFIER">>,
    <<"HEIGHT", "NUMBER">>,
    <<"COLOR_PROP", "COLOR">> }

\* the concatenation of some sequences
RECURSIVE Flatten(_)
Flatten(seqs) == IF seqs = <<>> THEN <<>> ELSE Head(seqs) \o Flatten(Tail(seqs))

\* a shape keyword followed by some clauses, in any order and number
ShapeSequences ==
  {TokensOfKinds(<<shape>> \o Flatten(clauses)) :
     shape \in {"CIRCLE", "RECT", "LINE", "TRIANGLE"},
     clauses \in Texts(ShapeClauses, MaxClauses)}

\* a word with its first letter in upper case
UpperFirst(word) ==
  [i \in DOMAIN word |->
     IF i = 1 /\ word[i] \in Range(LowerLetters)
     THEN UpperLetters[CHOOSE k \in DOMAIN LowerLetters : LowerLetters[k] = word[i]]
     ELSE word[i]]

\* lexemes given to the lexer alone: the reserved words as they are, with an
\* upper-case first letter, and followed by a letter; names of inherited
\* properties; a name with an underscore and a digit
LexemeSources ==
  DOMAIN KEYWORDS
  \cup {UpperFirst(w) : w \in DOMAIN KEYWORDS}
  \cup {w \o <<"x">> : w \in DOMAIN KEYWORDS}
  \cup InheritedKeys \cup {UpperFirst(w) : w \in InheritedKeys}
  \cup {<<"_", "a", "1">>}

\* the texts of the binary operators
OperatorTexts ==
  {<<"+">>, <<"-">>, <<"*">>, <<"/">>, <<"%">>, <<"<">>, <<">">>,
   <<"<", "=">>, <<">", "=">>, <<"=", "=">>, <<"!", "=">>}

\* `a <op> b <op> c` for every two binary operators
ExpressionSources ==
  {<<"a", " ">> \o o1 \o <<" ", "b", " ">> \o o2 \o <<" ", "c">> :
     o1 \in OperatorTexts, o2 \in OperatorTexts}

\* the token sequences given to the parser alone
TokenSequences ==
  {TokensOfKinds(k) : k \in Texts(ParserKinds, MaxTokens)}
  \cup {Tokenize(src) : src \in SamplePrograms}
  \cup ShapeSequences
  \cup {Tokenize(src) : src \in ExpressionSources}

\* k-1 line ends after a blank: what precedes line k of a source
RECURSIVE LinePrefix(_)
LinePrefix(k) == IF k <= 1 THEN <<" ">> ELSE LinePrefix(k - 1) \o <<"\n">>

\* the statement the parser gives for line k of a source, parsed from the
\* source up to the line: with the line end that follows the line when another
\* line follows it, since the lexer is past that line end (and on the next
\* line) when it makes a token that ends with the line
LineStatement(k, followed) ==
  Parse(Tokenize(LinePrefix(k) \o SourceLines[k]
                 \o (IF followed THEN <<"\n">> ELSE <<>>))).body[1]

LineStatements ==
  [k \in DOMAIN SourceLines |->
     [followed \in BOOLEAN |-> LineStatement(k, followed)]]

\* the source that holds the lines S of SourceLines, each on its own line, the
\* other lines blank
RECURSIVE SourceWith(_, _)
SourceWith(S, k) ==
  IF k <= 1 THEN <<" ">> \o (IF 1 \in S THEN SourceLines[1] ELSE <<>>)
  ELSE SourceWith(S, k - 1) \o <<"\n">> \o (IF k \in S THEN SourceLines[k] ELSE <<>>)
SourceOf(S) == SourceWith(S, CHOOSE m \in S \cup {1} : \A k \in S : k <= m)

\* the members of a set of numbers in increasing order
RECURSIVE Ascending(_)
Ascending(S) ==
  IF S = {} THEN <<>>
  ELSE LET m == CHOOSE x \in S : \A y \in S : x <= y
       IN <<m>> \o Ascending(S \ {m})

\* the Programs given to the analyzer alone: Parse(Tokenize(SourceOf(S))) for
\* the sets S of at most MaxStatements lines.  Every line of SourceLines is
\* one statement, so the body is the statements of the lines of S, the last
\* one followed by no line end
Programs ==
  {Program([i \in DOMAIN Ascending(S) |->
              LineStatements[Ascending(S)[i]][i < Cardinality(S)]]) :
     S \in {T \in SUBSET (DOMAIN SourceLines) : Cardinality(T) <= MaxStatements}}

-----------------------------------------------------------------------------
(* Initial states: one per entry point *)

\* the generated text is not being executed
NoRun == [statement |-> 0, variables |-> <<>>, counter |-> 0, entry |-> 0,
          tests |-> 0, passes |-> 0]

Idle ==
  /\ run = NoRun
  /\ token = NoToken
  /\ current = 0 /\ statements = <<>> /\ console = <<>> /\ thrownAt = <<>>
  /\ ast = NoNode
  /\ stmtIndex = 0
  /\ indent = 0 /\ output = <<>> /\ genIndex = 0
  /\ result = None

\* new MFlowCompiler().compile(sourceCode), about to call tokenize
Init ==
  /\ mode = "compile" /\ pc = "tokenize"
  /\ input \in Texts(CompileAlphabet, MaxSrcLen) \cup SamplePrograms
  /\ lexer = NewLexer(input)
  /\ tokens = <<>>
  /\ scopes = <<>> /\ errors = <<>>
  /\ Idle

\* new Lexer(input).tokenize()
InitLexer ==
  /\ mode = "tokenize" /\ pc = "tokenize"
  /\ input \in Texts(LexerAlphabet, MaxSrcLen) \cup SamplePrograms \cup LexemeSources
  /\ lexer = NewLexer(input)
  /\ tokens = <<>>
  /\ scopes = <<>> /\ errors = <<>>
  /\ Idle

\* new Parser(tokens).parse()
InitParser ==
  /\ mode = "parse" /\ pc = "parse"
  /\ input = <<>> /\ lexer = NewLexer(<<>>)
  /\ tokens \in TokenSequences
  /\ scopes = <<>> /\ errors = <<>>
  /\ Idle

\* new SemanticAnalyzer().analyze(program), about to run the loop over body
InitAnalyzer ==
  /\ mode = "analyze" /\ pc = "analyze"
  /\ input = <<>> /\ lexer = NewLexer(<<>>)
  /\ token = NoToken /\ tokens = <<>>
  /\ current = 0 /\ statements = <<>> /\ console = <<>> /\ thrownAt = <<>>
  /\ ast \in Programs
  /\ scopes = NewAnalyzer.scopes /\ errors = <<>>
  /\ stmtIndex = 1
  /\ indent = 0 /\ output = <<>> /\ genIndex = 0
  /\ result = None
  /\ run = NoRun

-----------------------------------------------------------------------------
(* Actions *)

lexerVars == <<input, lexer, token>>
parserVars == <<current, statements, console, thrownAt>>
analyzerVars == <<scopes, errors, stmtIndex>>
generatorVars == <<indent, output, genIndex>>

\* Lexer.tokenize: one pass of its loop, nextToken gave a token other than EOF
TokenizeStep ==
  /\ pc = "tokenize"
  /\ LET Continue(r) ==
           /\ r.tok.type # "EOF"
           /\ token' = r.tok
           /\ lexer' = r.lex
           /\ tokens' = IF r.tok.type # "NEWLINE" THEN Append(tokens, r.tok)
                        ELSE tokens
     IN Continue(NextToken(input, lexer))
  /\ UNCHANGED <<run, mode, pc, input, parserVars, ast, analyzerVars, generatorVars, result>>

\* Lexer.tokenize: nextToken gave EOF, the loop ends and the tokens are
\* returned; compile goes on to new Parser(tokens), whose cursor is 0, and to
\* parse, whose list of statements is empty
TokenizeReturn ==
  /\ pc = "tokenize"
  /\ LET Continue(r) ==
           /\ r.tok.type = "EOF"
           /\ token' = r.tok
           /\ lexer' = r.lex
           /\ tokens' = Append(tokens, r.tok)
     IN Continue(NextToken(input, lexer))
  /\ IF mode = "compile"
     THEN /\ pc' = "parse"
          /\ current' = 0
          /\ statements' = <<>>
     ELSE /\ pc' = "done"
          /\ UNCHANGED <<current, statements>>
  /\ UNCHANGED <<run, mode, input, console, thrownAt, ast, analyzerVars, generatorVars,
                 result>>

\* Parser.parse: one pass of its loop.  statement() returned and the
\* statement is pushed, or it threw a ParseError: the catch writes it to the
\* console and synchronize runs
ParseStatement ==
  /\ pc = "parse"
  /\ ~IsAtEnd(tokens, current)
  /\ LET Continue(st) ==
           IF st.ok
           THEN /\ statements' = Append(statements, st.node)
                /\ current' = st.pos
                /\ UNCHANGED <<console, thrownAt>>
           ELSE /\ console' = Append(console, st.err.message)
                /\ thrownAt' = Append(thrownAt, st.pos)
                /\ current' = Synchronize(tokens, st.pos)
                /\ UNCHANGED statements
     IN Continue(Statement(tokens, current))
  /\ UNCHANGED <<run, mode, pc, lexerVars, tokens, ast, analyzerVars, generatorVars,
                 result>>

\* Parser.parse returns the Program, and compile analyzes it with the
\* SemanticAnalyzer of the call before when there is one
ParseReturnReusing ==
  /\ pc = "parse"
  /\ IsAtEnd(tokens, current)
  /\ ast' = Program(statements)
  /\ IF mode = "compile"
     THEN /\ pc' = "analyze"
          /\ scopes' = IF scopes = <<>> THEN NewAnalyzer.scopes ELSE scopes
          /\ errors' = <<>>
          /\ stmtIndex' = 1
     ELSE /\ pc' = "done"
          /\ UNCHANGED analyzerVars
  /\ UNCHANGED <<run, mode, lexerVars, tokens, parserVars, generatorVars, result>>

\* Parser.parse returns the Program; compile goes on to
\* new SemanticAnalyzer() and analyze(ast), which empties this.errors
ParseReturn ==
  /\ pc = "parse"
  /\ IsAtEnd(tokens, current)
  /\ ast' = Program(statements)
  /\ IF mode = "compile"
     THEN /\ pc' = "analyze"
          /\ scopes' = NewAnalyzer.scopes
          /\ errors' = <<>>
          /\ stmtIndex' = 1
     ELSE /\ pc' = "done"
          /\ UNCHANGED analyzerVars
  /\ UNCHANGED <<run, mode, lexerVars, tokens, parserVars, generatorVars, result>>

\* SemanticAnalyzer.analyze: one pass of its loop over program.body
AnalyzeStep ==
  /\ pc = "analyze"
  /\ stmtIndex <= Len(ast.body)
  /\ LET Continue(after) ==
           /\ scopes' = after.scopes
           /\ errors' = after.errors
     IN Continue(AnalyzeStatement([scopes |-> scopes, errors |-> errors],
                                  ast.body[stmtIndex]))
  /\ stmtIndex' = stmtIndex + 1
  /\ UNCHANGED <<run, mode, pc, lexerVars, tokens, parserVars, ast, generatorVars, result>>

\* SemanticAnalyzer.analyze returns this.errors; compile returns the failure
\* when there are errors and goes on to new CodeGenerator() otherwise
AnalyzeReturn ==
  /\ pc = "analyze"
  /\ stmtIndex > Len(ast.body)
  /\ IF mode = "compile"
     THEN IF HasSemanticErrors(errors)
          THEN pc' = "done" /\ result' = Some(SemanticFailure(errors))
          ELSE pc' = "generate" /\ UNCHANGED result
     ELSE pc' = "done" /\ UNCHANGED result
  /\ UNCHANGED <<run, mode, lexerVars, tokens, parserVars, ast, analyzerVars, generatorVars>>

\* CodeGenerator.generate: the reset of output and indent, the preamble, the
\* opening of main and indent++
GenerateBegin ==
  /\ pc = "generate"
  /\ LET Continue(g) ==
           /\ output' = g.output
           /\ indent' = g.indent
     IN Continue(IndentMore(Perform([NewGenerator EXCEPT !.output = <<>>,
                                                         !.indent = 0],
                                    Preamble)))
  /\ genIndex' = 1
  /\ pc' = "generateBody"
  /\ UNCHANGED <<run, mode, lexerVars, tokens, parserVars, ast, analyzerVars, result>>

\* CodeGenerator.generate: one pass of its loop over program.body
GenerateStep ==
  /\ pc = "generateBody"
  /\ genIndex <= Len(ast.body)
  /\ LET Continue(g) ==
           /\ output' = g.output
           /\ indent' = g.indent
     IN Continue(Perform([output |-> output, indent |-> indent],
                         GenerateStatement(ast.body[genIndex])))
  /\ genIndex' = genIndex + 1
  /\ UNCHANGED <<run, mode, pc, lexerVars, tokens, parserVars, ast, analyzerVars, result>>

\* CodeGenerator.generate: indent--, the closing of main, return this.output;
\* compile returns the success
GenerateReturn ==
  /\ pc = "generateBody"
  /\ genIndex > Len(ast.body)
  /\ LET Continue(g) ==
           /\ output' = g.output
           /\ indent' = g.indent
           /\ result' = Some(Success(g.output))
     IN Continue(EmitLine(IndentLess([output |-> output, indent |-> indent]),
                          <<"})();">>))
  /\ pc' = "done"
  /\ UNCHANGED <<run, mode, lexerVars, tokens, parserVars, ast, analyzerVars, genIndex>>

\* the sources of the calls of a run that makes several calls of compile
CallSources == SamplePrograms \cup {<<>>}

\* one more call of compile, on the same MFlowCompiler or on a new one (the
\* class has no fields): the call builds a new Lexer; the Parser, the
\* SemanticAnalyzer and the CodeGenerator of the call before stay as they are
\* until the call builds its own.  console holds what the call at hand wrote.
CompileAgain ==
  /\ pc = "done" /\ mode = "compile"
  /\ \E sourceCode \in CallSources :
       /\ input' = sourceCode
       /\ lexer' = NewLexer(sourceCode)
  /\ token' = NoToken /\ tokens' = <<>>
  /\ console' = <<>> /\ thrownAt' = <<>>
  /\ result' = None
  /\ pc' = "tokenize"
  /\ UNCHANGED <<run, mode, current, statements, ast, analyzerVars, generatorVars>>

-----------------------------------------------------------------------------
(* The host runtime executes the generated text: let statements and the loop
   that generateRepeatStatement emits,
     for (let __i = 0; __i < <times>; __i++) { <body> }                     *)

\* largest number the executed programs hold
MaxCount == 3

\* the name of the counter in the text of the loop
LoopCounter == <<"_", "_", "i">>

\* the names the executed programs bind with let
RunNames == {<<"n">>, LoopCounter}

\* the bodies of the loops of the executed programs
RunBodies == {<<"1">>, <<"l", "e", "t", " ", "n", " ", "=", " ", "0">>}

\* `repeat <times> { <body> }`
RepeatSource(times, body) ==
  <<"r", "e", "p", "e", "a", "t", " ">> \o times \o <<" ", "{", " ">> \o body
  \o <<" ", "}">>

\* the executed programs: a loop bounded by a number, and a let followed by a
\* loop bounded by the name it binds
RunSources ==
  {RepeatSource(NumStr(v), body) : v \in 0..MaxCount, body \in RunBodies}
  \cup {<<"l", "e", "t", " ">> \o name \o <<" ", "=", " ">> \o NumStr(v) \o <<"\n">>
          \o RepeatSource(name, body) :
        name \in RunNames, v \in 0..MaxCount, body \in RunBodies}

\* the text generateExpression emits for an expression
ExpressionText(expr) == Perform(NewGenerator, GenerateExpression(expr)).output

\* the value of the text of a number or of a name, the name looked up in the
\* scope of the loop first and in the scope of main next
EvalText(text, loopScope, variables) ==
  IF text \in DOMAIN loopScope THEN loopScope[text]
  ELSE IF text \in DOMAIN variables THEN variables[text]
  ELSE CHOOSE k \in 0..MaxCount : NumStr(k) = text

\* new MFlowCompiler().compile(sourceCode) on a program that is executed after
InitRun ==
  /\ mode = "compile" /\ pc = "tokenize"
  /\ input \in RunSources
  /\ lexer = NewLexer(input)
  /\ tokens = <<>>
  /\ scopes = <<>> /\ errors = <<>>
  /\ Idle

\* compile has returned the generated text and the host enters its main
RunBegin ==
  /\ mode = "compile" /\ pc = "done"
  /\ result # None /\ result[1].success
  /\ mode' = "run"
  /\ pc' = "runStatement"
  /\ run' = [NoRun EXCEPT !.statement = 1]
  /\ UNCHANGED <<lexerVars, tokens, parserVars, ast, analyzerVars, generatorVars,
                 result>>

\* `let <name> = <value>;` in main
RunLet ==
  /\ pc = "runStatement"
  /\ run.statement \in DOMAIN ast.body
  /\ ast.body[run.statement].type = "LetStatement"
  /\ run' = [run EXCEPT
               !.variables =
                 (ast.body[run.statement].identifier.name
                    :> EvalText(ExpressionText(ast.body[run.statement].value),
                                <<>>, run.variables)) @@ @,
               !.statement = @ + 1]
  /\ UNCHANGED <<mode, pc, lexerVars, tokens, parserVars, ast, analyzerVars,
                 generatorVars, result>>

\* `for (let __i = 0; ...`: the loop is entered and its counter bound to 0;
\* entry records the value the repeat count has in main at this moment
RunForInit ==
  /\ pc = "runStatement"
  /\ run.statement \in DOMAIN ast.body
  /\ ast.body[run.statement].type = "RepeatStatement"
  /\ run' = [run EXCEPT
               !.counter = 0,
               !.entry = EvalText(ExpressionText(ast.body[run.statement].times),
                                  <<>>, run.variables),
               !.tests = 0, !.passes = 0]
  /\ pc' = "forTest"
  /\ UNCHANGED <<mode, lexerVars, tokens, parserVars, ast, analyzerVars,
                 generatorVars, result>>

\* `__i < <times>`: the text of the repeat count is evaluated in the scope of
\* the loop; the loop runs its body when the test holds and is left otherwise
RunForTest ==
  /\ pc = "forTest"
  /\ LET Continue(times) ==
           /\ run' = [run EXCEPT
                        !.tests = @ + 1,
                        !.statement = IF run.counter < times THEN @ ELSE @ + 1]
           /\ pc' = IF run.counter < times THEN "forBody" ELSE "runStatement"
     IN Continue(EvalText(ExpressionText(ast.body[run.statement].times),
                          LoopCounter :> run.counter, run.variables))
  /\ UNCHANGED <<mode, lexerVars, tokens, parserVars, ast, analyzerVars,
                 generatorVars, result>>

\* `{ <body> }`: one execution of the body; what a let of the body binds
\* lives in the block of the body and ends with it
RunForBody ==
  /\ pc = "forBody"
  /\ run' = [run EXCEPT !.passes = @ + 1]
  /\ pc' = "forUpdate"
  /\ UNCHANGED <<mode, lexerVars, tokens, parserVars, ast, analyzerVars,
                 generatorVars, result>>

\* `__i++`
RunForUpdate ==
  /\ pc = "forUpdate"
  /\ run' = [run EXCEPT !.counter = @ + 1]
  /\ pc' = "forTest"
  /\ UNCHANGED <<mode, lexerVars, tokens, parserVars, ast, analyzerVars,
                 generatorVars, result>>

\* `})();`: main returns
RunReturn ==
  /\ pc = "runStatement"
  /\ run.statement > Len(ast.body)
  /\ pc' = "done"
  /\ UNCHANGED <<run, mode, lexerVars, tokens, parserVars, ast, analyzerVars,
                 generatorVars, result>>

-----------------------------------------------------------------------------
(* Specifications *)

\* MFlowCompiler.compile
Next ==
  \/ TokenizeStep \/ TokenizeReturn
  \/ ParseStatement \/ ParseReturn
  \/ AnalyzeStep \/ AnalyzeReturn
  \/ GenerateBegin \/ GenerateStep \/ GenerateReturn

Spec == Init /\ [][Next]_vars

\* a first call of compile on one of CallSources
InitCalls == Init /\ input \in CallSources

\* any number of calls of compile, one after the other
NextCalls == Next \/ CompileAgain

SpecCalls == InitCalls /\ [][NextCalls]_vars

\* compile on a source without errors, then the execution of the generated text
NextRun ==
  \/ TokenizeStep \/ TokenizeReturn
  \/ ParseStatement \/ ParseReturn
  \/ AnalyzeStep \/ AnalyzeReturn
  \/ GenerateBegin \/ GenerateStep \/ GenerateReturn
  \/ RunBegin
  \/ RunLet \/ RunForInit \/ RunForTest \/ RunForBody \/ RunForUpdate
  \/ RunReturn

SpecRun == InitRun /\ [][NextRun]_vars

\* a source argument that is no text: compile(undefined)
Undefined == <<Null>>

\* a Lexer that is not constructed yet
NoLexer == [position |-> 0, line |-> 0, column |-> 0, currentChar |-> Null]

\* new MFlowCompiler().compile(sourceCode), inside its try, about to construct
\* the Lexer
InitThrow ==
  /\ mode = "compile" /\ pc = "construct"
  /\ input \in SamplePrograms \cup {Undefined}
  /\ lexer = NoLexer
  /\ tokens = <<>>
  /\ scopes = <<>> /\ errors = <<>>
  /\ Idle

\* new Lexer(sourceCode) on a text
LexerConstruct ==
  /\ pc = "construct"
  /\ input # Undefined
  /\ lexer' = NewLexer(input)
  /\ pc' = "tokenize"
  /\ UNCHANGED <<run, mode, input, token, tokens, parserVars, ast, analyzerVars,
                 generatorVars, result>>

\* new Lexer(undefined): `this.input[0]` raises a TypeError, which the catch
\* of compile turns into the result
LexerConstructThrows ==
  /\ pc = "construct"
  /\ input = Undefined
  /\ result' = Some(Caught(TypeErrorOfUndefined))
  /\ pc' = "done"
  /\ UNCHANGED <<run, mode, lexerVars, tokens, parserVars, ast, analyzerVars,
                 generatorVars>>

\* The stack of the host, whose size the language does not fix, can be
\* exhausted at the entry of any call: the RangeError ends the stage in the
\* state in which the call was made, and the catch of compile turns it into
\* the result.

\* new Lexer(sourceCode) exhausts the stack: no Lexer is constructed
LexerConstructExhausts ==
  /\ pc = "construct"
  /\ result' = Some(Caught(StackExhausted))
  /\ pc' = "done"
  /\ UNCHANGED <<run, mode, lexerVars, tokens, parserVars, ast, analyzerVars,
                 generatorVars>>

\* the states of the Lexer between two advances from L on, up to the one in
\* which it stands at the position `last`, where the token ends: L before
\* the first advance, then the state each advance leaves
RECURSIVE LexerEntered(_, _, _)
LexerEntered(in, L, last) ==
  IF L.position >= last THEN {L}
  ELSE {L} \cup LexerEntered(in, LexerAdvance(in, L), last)

\* Lexer.tokenize: a call made while a token is read exhausts the stack:
\* nextToken itself, skipWhitespace, skipComment, peek, a read method and
\* advance, which are entered before an advance, and RegExp.test at the end
\* of a loop (lexer.ts 40, 60, 110, 127), toLowerCase (132) and tokens.push
\* (273), which run after the last advance of the token.  Every change of the
\* Lexer is made by advance, so the Lexer is left before the first advance,
\* between two of them or after the last, and the token at hand is not pushed
TokenizeThrows ==
  /\ pc = "tokenize" /\ mode = "compile"
  /\ LET Continue(r) == lexer' \in LexerEntered(input, lexer, r.lex.position)
     IN Continue(NextToken(input, lexer))
  /\ result' = Some(Caught(StackExhausted))
  /\ pc' = "done"
  /\ UNCHANGED <<run, mode, input, token, tokens, parserVars, ast, analyzerVars,
                 generatorVars>>

\* Parser.parse: a call exhausts the stack.  The RangeError is no ParseError,
\* so parse throws it again and writes nothing for it.  The cursor moves one
\* token at a time and advance calls previous() after each move, so the call
\* can come at every cursor from the one the pass began with to the one
\* statement() ended with; after a ParseError, written to the console, it
\* can come at every cursor of synchronize.  The statement is not pushed.
ParseThrows ==
  /\ pc = "parse" /\ mode = "compile"
  /\ IF IsAtEnd(tokens, current)
     THEN UNCHANGED <<current, console, thrownAt>>
     ELSE LET Continue(st) ==
                \/ /\ current' \in current..st.pos
                   /\ UNCHANGED <<console, thrownAt>>
                \/ /\ ~st.ok
                   /\ console' = Append(console, st.err.message)
                   /\ thrownAt' = Append(thrownAt, st.pos)
                   /\ current' \in st.pos..Synchronize(tokens, st.pos)
          IN Continue(Statement(tokens, current))
  /\ result' = Some(Caught(StackExhausted))
  /\ pc' = "done"
  /\ UNCHANGED <<run, mode, lexerVars, tokens, statements, ast, analyzerVars,
                 generatorVars>>

\* an analyzer that keeps the states in which its methods are entered
AnalyzerKeeping(A) == [scopes |-> A.scopes, errors |-> A.errors, entered |-> {}]

\* SemanticAnalyzer.analyze: a call exhausts the stack, in analyzeStatement
\* or, after the loop, in compile (errors.map, new CodeGenerator); the scopes
\* entered and the names declared before the call stay
AnalyzeThrows ==
  /\ pc = "analyze" /\ mode = "compile"
  /\ \E A \in (IF stmtIndex <= Len(ast.body)
               THEN AnalyzeStatement(
                      AnalyzerKeeping([scopes |-> scopes, errors |-> errors]),
                      ast.body[stmtIndex]).entered
               ELSE {[scopes |-> scopes, errors |-> errors]}) :
       /\ scopes' = A.scopes
       /\ errors' = A.errors
  /\ result' = Some(Caught(StackExhausted))
  /\ pc' = "done"
  /\ UNCHANGED <<run, mode, lexerVars, tokens, parserVars, ast, stmtIndex,
                 generatorVars>>

\* a generator that keeps the states in which its methods are entered
GeneratorKeeping(G) == [output |-> G.output, indent |-> G.indent, entered |-> {}]

\* the states a generator that ended in G kept: the output of each is the
\* beginning of the output of G
GeneratorStates(G) ==
  {[output |-> SubSeq(G.output, 1, e[1]), indent |-> e[2]] : e \in G.entered}

\* CodeGenerator.generate: a call exhausts the stack, in generate (new
\* CodeGenerator, generate, an emitLine of the preamble or of the closing) or
\* in generateStatement; the text emitted before the call and the indent of
\* that moment stay in the generator
GenerateThrows ==
  /\ pc \in {"generate", "generateBody"} /\ mode = "compile"
  /\ \E G \in (IF pc = "generate"
               THEN {[output |-> output, indent |-> indent]}
                    \cup GeneratorStates(
                           Perform(GeneratorKeeping(
                                     [NewGenerator EXCEPT !.output = <<>>,
                                                          !.indent = 0]),
                                   Preamble))
               ELSE IF genIndex <= Len(ast.body)
               THEN GeneratorStates(
                      Perform(GeneratorKeeping([output |-> output,
                                                indent |-> indent]),
                              GenerateStatement(ast.body[genIndex])))
               ELSE GeneratorStates(
                      EmitLine(IndentLess(
                                 GeneratorKeeping([output |-> output,
                                                   indent |-> indent])),
                               <<"})();">>))) :
       /\ output' = G.output
       /\ indent' = G.indent
  /\ result' = Some(Caught(StackExhausted))
  /\ pc' = "done"
  /\ UNCHANGED <<run, mode, lexerVars, tokens, parserVars, ast, analyzerVars,
                 genIndex>>

\* compile with the exceptions that its stages can raise
NextThrow ==
  \/ LexerConstruct \/ LexerConstructThrows \/ LexerConstructExhausts
  \/ TokenizeStep \/ TokenizeReturn \/ TokenizeThrows
  \/ ParseStatement \/ ParseReturn \/ ParseThrows
  \/ AnalyzeStep \/ AnalyzeReturn \/ AnalyzeThrows
  \/ GenerateBegin \/ GenerateStep \/ GenerateReturn \/ GenerateThrows

SpecThrow == InitThrow /\ [][NextThrow]_vars

\* Lexer.tokenize alone
NextLexer == TokenizeStep \/ TokenizeReturn

SpecLexer == InitLexer /\ [][NextLexer]_vars

\* Parser.parse alone
NextParser == ParseStatement \/ ParseReturn

SpecParser == InitParser /\ [][NextParser]_vars

\* SemanticAnalyzer.analyze alone
NextAnalyzer == AnalyzeStep \/ AnalyzeReturn

SpecAnalyzer == InitAnalyzer /\ [][NextAnalyzer]_vars

-----------------------------------------------------------------------------
(* Properties of MFlowCompiler.compile, checked under Spec *)

\* the result compile returned, once it has returned
Returned == result # None

\* C1: for every source in which the parser meets a syntax error, compile
\* ends in the failure that carries the syntax diagnostics: neither the
\* analysis nor the generation runs, and the result has success = false, the
\* diagnostics as its errors and no output.
C1_SyntaxErrorFails ==
  console # <<>> =>
    /\ pc \notin {"analyze", "generate", "generateBody"}
    /\ stmtIndex = 0 /\ genIndex = 0 /\ output = <<>>
    /\ pc = "done" =>
         result = Some([success |-> FALSE, output |-> None, errors |-> Some(console)])

\* C2: when the parser reported no error and analyze returned one error or
\* more, compile returns success = false with the message of every semantic
\* error, in the order analyze returned them, and generate is never invoked.
C2_SemanticErrorsFail ==
  (console = <<>> /\ errors # <<>>) =>
    /\ pc \in {"analyze", "done"}
    /\ genIndex = 0 /\ output = <<>>
    /\ pc = "done" =>
         /\ errors = Analyze(ast)
         /\ Returned
         /\ result[1].success = FALSE
         /\ result[1].output = None
         /\ result[1].errors # None
         /\ Len(result[1].errors[1]) = Len(errors)
         /\ \A i \in DOMAIN errors : result[1].errors[1][i] = errors[i].message

\* a compile that returned the failure for two semantic errors or more after
\* a parse without error
C2_Witness ==
  /\ pc = "done" /\ Returned
  /\ console = <<>>
  /\ Len(errors) >= 2
  /\ ~result[1].success

\* C3: every result compile returns has one of two shapes: success = true with
\* the output present and no errors, or success = false with a non-empty list
\* of errors and no output; and compile returns exactly when it is done.
C3_ResultShape ==
  /\ Returned <=> pc = "done"
  /\ Returned =>
       \/ /\ result[1].success
          /\ result[1].output # None
          /\ result[1].errors = None
       \/ /\ ~result[1].success
          /\ result[1].output = None
          /\ result[1].errors # None
          /\ result[1].errors[1] # <<>>

\* a failure was returned, for a source whose statements were all parsed
C3_Witness ==
  /\ Returned
  /\ ~result[1].success
  /\ ast # NoNode /\ ast.body # <<>>

\* the tokens of the source before its k-th character, the EOF not counted
TokensBefore(k) == Len(Tokenize(SubSeq(input, 1, k - 1))) - 1

\* whether `tail` is what `body` ends with
EndsWith(body, tail) ==
  /\ Len(body) >= Len(tail)
  /\ SubSeq(body, Len(body) - Len(tail) + 1, Len(body)) = tail

\* C4: the damage of a syntax error is confined to the line that holds it:
\* when every ParseError was raised at a token before some line end of the
\* source, and what follows that line end is a sequence of well-formed
\* statements, those statements are the end of Program.body.  (Sources with
\* a string literal are left aside: a literal may hold a line end.)
C4_LaterLinesParsed ==
  (ast # NoNode /\ console # <<>> /\ "\"" \notin Range(input)) =>
    \A k \in DOMAIN input :
      input[k] = "\n" =>
        LET Confined(before) ==
              LET Follows(alone) ==
                    (/\ \A i \in DOMAIN thrownAt : thrownAt[i] < before
                     /\ alone.console = <<>>
                     /\ alone.body # <<>>)
                    => EndsWith(ast.body, alone.body)
              IN Follows(Parse(SubSeq(tokens, before + 1, Len(tokens))))
        IN Confined(TokensBefore(k))

-----------------------------------------------------------------------------
(* Properties of Parser.parse, checked under SpecParser *)

\* the index in the token sequence of its first EOF token
FirstEof == CHOOSE i \in DOMAIN tokens :
              /\ tokens[i].type = "EOF"
              /\ \A j \in 1..(i - 1) : tokens[j].type # "EOF"

\* C5: for every token sequence that ends with an EOF token, parse
\* terminates and returns a Program without raising: every pass of its loop,
\* one that ends in recovery included, moves the cursor forward, the cursor
\* never passes the EOF token, so the passes made (each left one statement
\* or one logged ParseError) never outnumber the tokens read; and while the
\* loop runs it is at its end or statement() gives a node or a ParseError,
\* which the loop catches.
C5_ParseTerminates ==
  /\ [][(pc = "parse" /\ pc' = "parse") => current' > current]_vars
  /\ [](current + 1 <= FirstEof)
  /\ [](Len(statements) + Len(console) <= current)
  /\ [](pc = "parse" =>
          \/ IsAtEnd(tokens, current)
          \/ Statement(tokens, current).ok \in BOOLEAN)
  /\ [](pc = "done" => /\ ast.type = "Program"
                       /\ ast.body = statements
                       /\ IsAtEnd(tokens, current))

\* parse returned a Program after a recovery and after a parsed statement
C5_Witness ==
  /\ pc = "done"
  /\ console # <<>>
  /\ ast.body # <<>>

-----------------------------------------------------------------------------
(* Properties of Lexer.tokenize, checked under SpecLexer *)

\* the characters nextToken has a case for
Recognized(c) ==
  \/ IsBlank(c) \/ c = "\n" \/ IsDigit(c) \/ c = "\"" \/ c = "#" \/ IsIdentStart(c)
  \/ c \in {"+", "-", "*", "/", "%", "=", "!", "<", ">", "(", ")", "{", "}", ",", "."}

\* the characters of the input that form no token: one nextToken has no case
\* for, or a '!' that no '=' follows
RECURSIVE UnrecognizedFrom(_)
UnrecognizedFrom(i) ==
  IF i > Len(input) THEN <<>>
  ELSE IF ~Recognized(input[i])
          \/ (input[i] = "!" /\ (i = Len(input) \/ input[i + 1] # "="))
       THEN <<input[i]>> \o UnrecognizedFrom(i + 1)
       ELSE UnrecognizedFrom(i + 1)

\* the text of each ILLEGAL token, in order
RECURSIVE IllegalValues(_)
IllegalValues(toks) ==
  IF toks = <<>> THEN <<>>
  ELSE IF Head(toks).type = "ILLEGAL"
       THEN Head(toks).value \o IllegalValues(Tail(toks))
       ELSE IllegalValues(Tail(toks))

\* C6: for every input, tokenize terminates and returns a sequence with
\* exactly one EOF token, its last; every nextToken call that returns a token
\* other than EOF has moved the scan position forward, the position never
\* passes the end of the input, nextToken always gives a token, and every
\* unrecognized character yields one ILLEGAL token, the scan going on.  (The count of ILLEGAL tokens is stated
\* for inputs without string literal and without comment, which hold
\* characters that form no token of their own.)
C6_TokenizeTerminates ==
  /\ [][(pc = "tokenize" /\ token'.type # "EOF")
          => lexer'.position > lexer.position]_vars
  /\ [](lexer.position <= Len(input))
  /\ [](pc = "tokenize" => NextToken(input, lexer).tok.type # Null)
  /\ [](pc = "done" =>
          /\ tokens # <<>>
          /\ tokens[Len(tokens)].type = "EOF"
          /\ \A i \in 1..(Len(tokens) - 1) : tokens[i].type # "EOF"
          /\ lexer.position = Len(input)
          /\ ("\"" \notin Range(input) /\ "/" \notin Range(input))
               => IllegalValues(tokens) = UnrecognizedFrom(1))

\* tokenize returned after an ILLEGAL token and a token that followed it
C6_Witness ==
  /\ pc = "done"
  /\ \E i \in DOMAIN tokens :
       /\ tokens[i].type = "ILLEGAL"
       /\ i + 1 < Len(tokens)

\* the number of line ends among the first n characters of the input
RECURSIVE LineEndsBefore(_)
LineEndsBefore(n) ==
  IF n <= 0 THEN 0
  ELSE LineEndsBefore(n - 1) + (IF input[n] = "\n" THEN 1 ELSE 0)

\* the number of characters between the start of its line and the character
\* at offset n (offsets count from 0)
RECURSIVE CharsSinceLineStart(_)
CharsSinceLineStart(n) ==
  IF n <= 0 \/ input[n] = "\n" THEN 0 ELSE 1 + CharsSinceLineStart(n - 1)

\* the offset of the first character of the token nextToken just returned:
\* the scan stands right after the token's text
TokenStart == lexer.position - Len(token.value)

\* C7: every token carries the line and column of its first character: the
\* line is 1 + the number of line ends before that character, the column is
\* 1 + the number of characters between the start of that line and it.
\* (Stated for the tokens whose text is a stretch of the source: all but the
\* string literals and EOF.)
C7_TokenPosition ==
  (token # NoToken /\ token.type \notin {"STRING", "EOF"}) =>
    /\ token.line = 1 + LineEndsBefore(TokenStart)
    /\ token.column = 1 + CharsSinceLineStart(TokenStart)

-----------------------------------------------------------------------------
(* Properties of SemanticAnalyzer.analyze, checked under SpecAnalyzer *)

\* whether analyze reported an error at a position
ErrorAt(line, column) ==
  \E i \in DOMAIN errors : errors[i].line = line /\ errors[i].column = column

\* C8: functions can be called before their declaration: a call of a
\* function that the same scope declares yields no semantic error, whether the
\* declaration comes before or after the call in statement order.
C8_CallBeforeDeclaration ==
  pc = "done" =>
    \A i, j \in DOMAIN ast.body :
      (/\ ast.body[j].type = "FunctionDeclaration"
       /\ ast.body[i].type = "ExpressionStatement"
       /\ ast.body[i].expression.type = "CallExpression"
       /\ ast.body[i].expression.callee.type = "Identifier"
       /\ ast.body[i].expression.callee.name = ast.body[j].name.name)
      => ~ErrorAt(ast.body[i].expression.callee.line,
                  ast.body[i].expression.callee.column)

\* no frame of the scope chain holds a declaration of the name
DeclaredNowhere(name) == \A i \in DOMAIN scopes : name \notin DOMAIN scopes[i]

\* C9: a let binding is not visible in its own initializer: analyzing
\* `let x = y`, with y declared nowhere (y may be x itself) and x not yet in
\* the current frame, yields exactly one error, which names y, and x is
\* declared in the current frame afterwards.
C9_LetInitializerFirst ==
  [][(/\ pc = "analyze"
      /\ stmtIndex \in DOMAIN ast.body
      /\ ast.body[stmtIndex].type = "LetStatement"
      /\ ast.body[stmtIndex].value.type = "Identifier"
      /\ DeclaredNowhere(ast.body[stmtIndex].value.name)
      /\ ast.body[stmtIndex].identifier.name \notin DOMAIN scopes[Len(scopes)])
     => /\ errors' =
             Append(errors,
                    SemanticError(<<"Undefined variable '">>
                                    \o ast.body[stmtIndex].value.name \o <<"'">>,
                                  ast.body[stmtIndex].value.line,
                                  ast.body[stmtIndex].value.column))
        /\ Len(scopes') = Len(scopes)
        /\ ast.body[stmtIndex].identifier.name \in DOMAIN scopes'[Len(scopes')]
    ]_vars

\* the identifiers that the let statements of one frame bind, in statement
\* order: those of the statements themselves and of their if, else and repeat
\* bodies, not those of function or scene bodies
RECURSIVE FrameLets(_)
FrameLets(stmts) ==
  IF stmts = <<>> THEN <<>>
  ELSE (CASE Head(stmts).type = "LetStatement" -> <<Head(stmts).identifier>>
          [] Head(stmts).type = "IfStatement" ->
               FrameLets(Head(stmts).thenBranch)
               \o (IF Head(stmts).elseBranch # None
                   THEN FrameLets(Head(stmts).elseBranch[1]) ELSE <<>>)
          [] Head(stmts).type = "RepeatStatement" -> FrameLets(Head(stmts).body)
          [] OTHER -> <<>>)
       \o FrameLets(Tail(stmts))

\* the bodies of the functions and scenes that occur in some statements
RECURSIVE InnerFrames(_)
InnerFrames(stmts) ==
  UNION {CASE s.type \in {"FunctionDeclaration", "SceneBlock"} ->
                {s.body} \cup InnerFrames(s.body)
           [] s.type = "IfStatement" ->
                InnerFrames(s.thenBranch)
                \cup (IF s.elseBranch # None THEN InnerFrames(s.elseBranch[1])
                      ELSE {})
           [] s.type = "RepeatStatement" -> InnerFrames(s.body)
           [] OTHER -> {}
         : s \in Range(stmts)}

\* the statement lists of the program that are analyzed in a frame of their own
Frames == {ast.body} \cup InnerFrames(ast.body)

\* a let that binds a name an earlier let of the same frame bound, one of the
\* two maybe inside an if or repeat body, is reported as a duplicate
DuplicateLetsReported(frame) ==
  \A i, j \in DOMAIN FrameLets(frame) :
    (i < j /\ FrameLets(frame)[i].name = FrameLets(frame)[j].name) =>
      \E k \in DOMAIN errors :
        errors[k] = SemanticError(<<"Variable '">> \o FrameLets(frame)[j].name
                                    \o <<"' is already declared in this scope">>,
                                  FrameLets(frame)[j].line,
                                  FrameLets(frame)[j].column)

\* a name bound inside an if or repeat body resolves in the statements that
\* follow the block in the same frame
BlockLetsResolveAfter(frame) ==
  \A s, t \in DOMAIN frame :
    (/\ s < t
     /\ frame[s].type \in {"IfStatement", "RepeatStatement"}
     /\ frame[t].type = "ExpressionStatement"
     /\ frame[t].expression.type = "Identifier"
     /\ \E l \in DOMAIN FrameLets(<<frame[s]>>) :
          FrameLets(<<frame[s]>>)[l].name = frame[t].expression.name)
    => ~ErrorAt(frame[t].expression.line, frame[t].expression.column)

\* C10: if and repeat bodies are analyzed in the current frame: two let
\* statements that bind the same name in one function body yield a
\* duplicate-declaration error, also when one of them is inside an if or
\* repeat body, and a name first declared inside an if or repeat body resolves
\* without error in the statements that follow the block.
C10_BlocksShareFrame ==
  pc = "done" =>
    \A frame \in Frames :
      DuplicateLetsReported(frame) /\ BlockLetsResolveAfter(frame)

\* analyze returned for a function body in which a name bound inside an if or
\* repeat body is read after the block and bound again by a later let
C10_Witness ==
  /\ pc = "done"
  /\ \E frame \in InnerFrames(ast.body) :
       \E s, t, u \in DOMAIN frame :
         /\ s < t /\ t < u
         /\ frame[s].type \in {"IfStatement", "RepeatStatement"}
         /\ frame[t].type = "ExpressionStatement"
         /\ frame[t].expression.type = "Identifier"
         /\ frame[u].type = "LetStatement"
         /\ FrameLets(<<frame[s]>>) # <<>>
         /\ FrameLets(<<frame[s]>>)[1].name = frame[t].expression.name
         /\ frame[u].identifier.name = frame[t].expression.name
         /\ ErrorAt(frame[u].identifier.line, frame[u].identifier.column)
         /\ ~ErrorAt(frame[t].expression.line, frame[t].expression.column)

\* the error declare reports for an identifier whose name the frame holds
DuplicateError(id) ==
  SemanticError(<<"Variable '">> \o id.name
                  \o <<"' is already declared in this scope">>,
                id.line, id.column)

\* the identifiers that some statements declare in the frame they are analyzed
\* in, in statement order: function names and the names let statements bind,
\* those inside if, else and repeat bodies included
RECURSIVE FrameDeclarations(_)
FrameDeclarations(stmts) ==
  IF stmts = <<>> THEN <<>>
  ELSE (CASE Head(stmts).type = "LetStatement" -> <<Head(stmts).identifier>>
          [] Head(stmts).type = "FunctionDeclaration" -> <<Head(stmts).name>>
          [] Head(stmts).type = "IfStatement" ->
               FrameDeclarations(Head(stmts).thenBranch)
               \o (IF Head(stmts).elseBranch # None
                   THEN FrameDeclarations(Head(stmts).elseBranch[1]) ELSE <<>>)
          [] Head(stmts).type = "RepeatStatement" ->
               FrameDeclarations(Head(stmts).body)
          [] OTHER -> <<>>)
       \o FrameDeclarations(Tail(stmts))

\* the identifiers a function or scene declares in the frame it enters: the
\* parameters, then the declarations of the body
OwnFrameDeclarations(stmt) ==
  (IF stmt.type = "FunctionDeclaration" THEN stmt.parameters ELSE <<>>)
  \o FrameDeclarations(stmt.body)

\* every entry of the global frame is the first declaration of its name among
\* the statements analyzed so far: no later declaration replaced it
EntriesAreFirstDeclarations ==
  pc \in {"analyze", "done"} /\ scopes # <<>> =>
    LET decls == FrameDeclarations(SubSeq(ast.body, 1, stmtIndex - 1))
    IN \A n \in DOMAIN scopes[1] :
         \E i \in DOMAIN decls :
           /\ decls[i].name = n
           /\ \A j \in 1..(i - 1) : decls[j].name # n
           /\ scopes[1][n].line = decls[i].line
           /\ scopes[1][n].column = decls[i].column

\* the step that analyzes a top-level let whose name the global frame holds
\* appends the duplicate error for it, once and last, and changes no frame
RedeclarationReported ==
  (/\ pc = "analyze"
   /\ stmtIndex \in DOMAIN ast.body
   /\ ast.body[stmtIndex].type = "LetStatement"
   /\ ast.body[stmtIndex].identifier.name \in DOMAIN scopes[Len(scopes)])
  => /\ scopes' = scopes
     /\ Len(errors') > Len(errors)
     /\ SubSeq(errors', 1, Len(errors)) = errors
     /\ errors'[Len(errors')] = DuplicateError(ast.body[stmtIndex].identifier)
     /\ \A i \in (Len(errors) + 1)..(Len(errors') - 1) :
          errors'[i] # DuplicateError(ast.body[stmtIndex].identifier)

\* the step that analyzes a top-level function or scene: a name its frame
\* declares for the first time, and that the enclosing frame holds, is added to
\* the new frame by declare and no error is reported at it
ShadowingAllowed ==
  (/\ pc = "analyze"
   /\ stmtIndex \in DOMAIN ast.body
   /\ ast.body[stmtIndex].type \in {"FunctionDeclaration", "SceneBlock"})
  => LET own == OwnFrameDeclarations(ast.body[stmtIndex])
         inner == EnterScope([scopes |-> scopes', errors |-> errors])
     IN \A i \in DOMAIN own :
          (/\ own[i].name \in DOMAIN scopes'[1]
           /\ \A j \in 1..(i - 1) : own[j].name # own[i].name)
          => /\ \A k \in DOMAIN errors' :
                  ~(errors'[k].line = own[i].line /\ errors'[k].column = own[i].column)
             /\ Declare(inner, own[i].name, "variable", own[i].line, own[i].column).errors
                  = errors
             /\ own[i].name \in
                  DOMAIN Declare(inner, own[i].name, "variable",
                                 own[i].line, own[i].column).scopes[2]
             /\ Len(scopes') = Len(scopes)

\* C11: each frame holds a name at most once: an entry is the first
\* declaration of its name, declaring a name the current frame already holds
\* appends exactly one error and leaves the entry unchanged, and declaring,
\* inside a function body or scene block, a name that only an outer frame
\* holds adds it to the new frame with no error.
C11_OncePerFrame ==
  /\ []EntriesAreFirstDeclarations
  /\ [][RedeclarationReported /\ ShadowingAllowed]_vars

\* analyze returned for a program in which a top-level let binds a name again
\* and a later function or scene declares a global name in its own frame
C11_Witness ==
  /\ pc = "done" /\ mode = "analyze"
  /\ \E i, j \in DOMAIN ast.body :
       /\ i < j
       /\ ast.body[i].type = "LetStatement"
       /\ ast.body[j].type = "LetStatement"
       /\ ast.body[i].identifier.name = ast.body[j].identifier.name
       /\ ast.body[i].identifier.name \in DOMAIN scopes[1]
       /\ ErrorAt(ast.body[j].identifier.line, ast.body[j].identifier.column)
       /\ \E k \in DOMAIN ast.body :
            /\ j < k
            /\ ast.body[k].type \in {"FunctionDeclaration", "SceneBlock"}
            /\ \E d \in DOMAIN OwnFrameDeclarations(ast.body[k]) :
                 /\ OwnFrameDeclarations(ast.body[k])[d].name
                      = ast.body[i].identifier.name
                 /\ ~ErrorAt(OwnFrameDeclarations(ast.body[k])[d].line,
                             OwnFrameDeclarations(ast.body[k])[d].column)

-----------------------------------------------------------------------------
(* Properties of the shape constructors, checked under SpecParser *)

\* the kinds of token that are an expression of one token
AtomKinds == {"NUMBER", "STRING", "COLOR", "IDENTIFIER"}

\* the kinds of token that continue an expression after a complete operand
ContinuationKinds ==
  {"LPAREN", "PLUS", "MINUS", "MULTIPLY", "DIVIDE", "MODULO", "GREATER_THAN",
   "GREATER_EQUAL", "LESS_THAN", "LESS_EQUAL", "EQUAL", "NOT_EQUAL"}

\* "( e , e )" with operands of one token
PointPattern == <<{"LPAREN"}, AtomKinds, {"COMMA"}, AtomKinds, {"RPAREN"}>>

\* the fixed clause sequence of each shape, its keyword first, as the kinds
\* allowed at each token when every operand is one token
ShapePattern(shape) ==
  CASE shape = "CIRCLE" ->
         <<{"CIRCLE"}, {"AT"}>> \o PointPattern
         \o <<{"SIZE"}, AtomKinds, {"COLOR_PROP"}, AtomKinds>>
    [] shape = "RECT" ->
         <<{"RECT"}, {"AT"}>> \o PointPattern
         \o <<{"WIDTH"}, AtomKinds, {"HEIGHT"}, AtomKinds, {"COLOR_PROP"}, AtomKinds>>
    [] shape = "LINE" ->
         <<{"LINE"}>> \o PointPattern \o PointPattern \o <<{"COLOR_PROP"}, AtomKinds>>
    [] shape = "TRIANGLE" ->
         <<{"TRIANGLE"}>> \o PointPattern \o PointPattern \o PointPattern
         \o <<{"COLOR_PROP"}, AtomKinds>>

\* the node type of each shape
ShapeNodeType(shape) ==
  CASE shape = "CIRCLE" -> "Circle"
    [] shape = "RECT" -> "Rect"
    [] shape = "LINE" -> "Line"
    [] shape = "TRIANGLE" -> "Triangle"

\* the message of the syntax error for a missing clause keyword
ExpectedKeywordMessage(shape, keyword) ==
  CASE keyword = "AT" /\ shape = "CIRCLE" -> <<"Expected \"at\" after circle">>
    [] keyword = "AT" /\ shape = "RECT" -> <<"Expected \"at\" after rect">>
    [] keyword = "SIZE" -> <<"Expected \"size\" keyword">>
    [] keyword = "WIDTH" -> <<"Expected \"width\" keyword">>
    [] keyword = "HEIGHT" -> <<"Expected \"height\" keyword">>
    [] keyword = "COLOR_PROP" -> <<"Expected \"color\" keyword">>

\* the token i places after the cursor, the EOF token when there is none
TokenAfter(i) ==
  IF current + i + 1 <= Len(tokens) THEN tokens[current + i + 1]
  ELSE tokens[Len(tokens)]

\* the first place of a pattern, counted from 1 at the cursor, whose token is
\* not of an allowed kind; one more than the length when every token fits
FirstMismatch(pattern) ==
  IF \E i \in DOMAIN pattern : TokenAfter(i - 1).type \notin pattern[i]
  THEN CHOOSE i \in DOMAIN pattern :
         /\ TokenAfter(i - 1).type \notin pattern[i]
         /\ \A j \in 1..(i - 1) : TokenAfter(j - 1).type \in pattern[j]
  ELSE Len(pattern) + 1

\* the token at place m follows a complete one-token operand and continues
\* the expression that holds it
ContinuesOperand(pattern, m) ==
  /\ m > 1
  /\ pattern[m - 1] = AtomKinds
  /\ TokenAfter(m - 1).type \in ContinuationKinds

\* the statement at the cursor starts with the keyword of a shape
AtShape(shape) ==
  /\ pc = "parse"
  /\ ~IsAtEnd(tokens, current)
  /\ Peek(tokens, current).type = shape

\* a shape whose tokens fit its clause sequence is parsed into one statement
\* that holds the node of the shape; the Circle node holds the expressions
\* parsed at x, y, size and color
WellFormedShapeParsed(shape) ==
  LET pattern == ShapePattern(shape)
  IN (/\ AtShape(shape)
      /\ FirstMismatch(pattern) = Len(pattern) + 1
      /\ ~ContinuesOperand(pattern, Len(pattern) + 1))
     => /\ console' = console
        /\ Len(statements') = Len(statements) + 1
        /\ statements'[Len(statements')].type = "ExpressionStatement"
        /\ statements'[Len(statements')].expression.type = ShapeNodeType(shape)
        /\ current' = current + Len(pattern)
        /\ shape = "CIRCLE" =>
             statements'[Len(statements')].expression =
               [type |-> "Circle",
                position |-> [x |-> Expression(tokens, current + 3).node,
                              y |-> Expression(tokens, current + 5).node],
                size |-> Expression(tokens, current + 8).node,
                color |-> Expression(tokens, current + 10).node,
                line |-> Peek(tokens, current).line,
                column |-> Peek(tokens, current).column]

\* a shape whose tokens leave its clause sequence yields a syntax error and no
\* statement; where a clause keyword was expected, the error names the keyword
\* and is raised at the token found in its place
MalformedShapeRejected(shape) ==
  LET pattern == ShapePattern(shape)
      m == FirstMismatch(pattern)
  IN (/\ AtShape(shape)
      /\ m <= Len(pattern)
      /\ pattern[m] # AtomKinds
      /\ ~ContinuesOperand(pattern, m))
     => /\ statements' = statements
        /\ Len(console') = Len(console) + 1
        /\ thrownAt' = Append(thrownAt, current + m - 1)
        /\ \A keyword \in pattern[m] \cap {"AT", "SIZE", "WIDTH", "HEIGHT", "COLOR_PROP"} :
             console'[Len(console')] =
               ParseError(ExpectedKeywordMessage(shape, keyword),
                          TokenAfter(m - 1).line, TokenAfter(m - 1).column).message

\* C12: each shape constructor accepts only its fixed clause sequence: a
\* well-formed circle yields a Circle node that holds exactly the parsed x, y,
\* size and color, and a missing or misplaced clause keyword raises a syntax
\* error that names the expected keyword at the offending token, with no shape
\* node produced.
C12_ShapeClauses ==
  [][\A shape \in {"CIRCLE", "RECT", "LINE", "TRIANGLE"} :
       WellFormedShapeParsed(shape) /\ MalformedShapeRejected(shape)]_vars

\* parse returned after a circle without its size clause: the error names
\* "size" and no statement was produced
C12_Witness ==
  /\ pc = "done" /\ mode = "parse"
  /\ tokens[1].type = "CIRCLE"
  /\ Len(tokens) > 8
  /\ tokens[8].type = "COLOR_PROP"
  /\ console = <<ParseError(<<"Expected \"size\" keyword">>,
                            tokens[8].line, tokens[8].column).message>>
  /\ statements = <<>>

\* parse returned the Circle node of a well-formed circle
C12_WitnessCircle ==
  /\ pc = "done" /\ mode = "parse"
  /\ tokens[1].type = "CIRCLE"
  /\ console = <<>>
  /\ Len(statements) = 1
  /\ statements[1].expression.type = "Circle"

-----------------------------------------------------------------------------
(* Properties of CodeGenerator.generate, checked under Spec *)

\* compile returned the text generated for a Program without statements
GeneratedEmptyProgram ==
  /\ pc = "done" /\ Returned
  /\ result[1].success
  /\ ast.body = <<>>

\* the lines that open and close the main routine
MainOpening == <<"// Main program", "\n", "(function main() {", "\n">>
MainClosing == <<"})();", "\n">>

\* the preamble proper: the canvas and context, the animationState record,
\* resetTransform, applyTransform and clear, without the opening of main
HelpersText ==
  SubSeq(Perform(NewGenerator, Preamble).output, 1,
         Len(Perform(NewGenerator, Preamble).output) - Len(MainOpening))

\* C13 as stated: generate on a Program with zero statements yields only the
\* preamble (drawing surface, animationState, applyTransform, clear and reset
\* helpers), with no text beyond it.
C13_OnlyPreamble ==
  GeneratedEmptyProgram => result[1].output[1] = HelpersText

\* C13 amended: generate on a Program with zero statements yields the preamble
\* followed by the opening and the closing of an empty main routine, and
\* nothing else; the indent is back at 0.
C13_PreambleAndEmptyMain ==
  GeneratedEmptyProgram =>
    /\ result[1].output[1] = HelpersText \o MainOpening \o MainClosing
    /\ Perform(NewGenerator, Preamble).output = HelpersText \o MainOpening
    /\ output = result[1].output[1]
    /\ indent = 0

\* compile returned the text generated for a source without statements and
\* without syntax errors
C13_Witness ==
  /\ GeneratedEmptyProgram
  /\ console = <<>>
  /\ Len(output) > Len(MainOpening) + Len(MainClosing)

-----------------------------------------------------------------------------
(* Properties of successive calls of compile, checked under SpecCalls *)

\* C14: compilation is deterministic and each call is independent: whatever
\* calls came before, a call returns the result that a first call on a new
\* compiler returns for the same source, so two calls on one source return
\* identical results; while a call runs, its cursor, scope stack, error list,
\* output buffer and indent are those of a first call at the same point.
C14_CallsIndependent ==
  /\ [](pc = "done" => (Returned /\ result[1] = Compile(input)))
  /\ [][/\ (pc = "tokenize" /\ pc' = "parse") =>
            (current' = 0 /\ statements' = <<>> /\ tokens' = Tokenize(input))
        /\ (pc = "parse" /\ pc' = "analyze") =>
            (scopes' = NewAnalyzer.scopes /\ errors' = <<>> /\ stmtIndex' = 1)
        /\ (pc = "generate" /\ pc' = "generateBody") =>
            (output' = Perform(NewGenerator, Preamble).output /\ indent' = 1)]_vars

\* a call returned a failure while the CodeGenerator of an earlier, successful
\* call still holds its text
C14_Witness ==
  /\ pc = "done" /\ Returned
  /\ ~result[1].success
  /\ output # <<>>
  /\ result[1] = Compile(input)

-----------------------------------------------------------------------------
(* Properties of the generated text when executed, checked under SpecRun *)

\* the loop of the statement before the one at hand has been left
LoopLeft ==
  /\ pc \in {"runStatement", "done"}
  /\ run.statement - 1 \in DOMAIN ast.body
  /\ ast.body[run.statement - 1].type = "RepeatStatement"

\* C15: the loop emitted for `repeat n { body }` executes body exactly v
\* times, v the value of n at loop entry, and evaluates the bound once, not
\* once per iteration.
C15_RepeatCount ==
  LoopLeft => (run.passes = run.entry /\ run.tests = 1)

-----------------------------------------------------------------------------
(* Properties of the text generated for animate blocks, checked under Spec *)

\* the text of a rope: its pieces one after the other
RECURSIVE Joined(_)
Joined(rope) == IF rope = <<>> THEN "" ELSE Head(rope) \o Joined(Tail(rope))

\* the animationState field an animation command is specified to update
UpdatedField(cmd) ==
  CASE cmd.type = "Move" /\ cmd.direction \in {<<"l", "e", "f", "t">>,
                                               <<"r", "i", "g", "h", "t">>} -> "x"
    [] cmd.type = "Move" /\ cmd.direction \in {<<"u", "p">>,
                                               <<"d", "o", "w", "n">>} -> "y"
    [] cmd.type = "Rotate" -> "rotation"
    [] cmd.type = "Scale" -> "scale"
    [] cmd.type = "Fade" -> "opacity"

\* the in-place operator of that update
UpdateOperator(cmd) ==
  CASE cmd.type = "Move" /\ cmd.direction \in {<<"l", "e", "f", "t">>,
                                               <<"u", "p">>} -> "-="
    [] cmd.type = "Move" /\ cmd.direction \in {<<"r", "i", "g", "h", "t">>,
                                               <<"d", "o", "w", "n">>} -> "+="
    [] cmd.type = "Rotate" -> "+="
    [] cmd.type = "Scale" -> "*="
    [] cmd.type = "Fade" -> "-="

\* the magnitude of an animation command
Magnitude(cmd) ==
  CASE cmd.type = "Move" -> cmd.amount
    [] cmd.type = "Rotate" -> cmd.angle
    [] cmd.type = "Scale" -> cmd.factor
    [] cmd.type = "Fade" -> cmd.amount

\* the one line a command is specified to emit at a depth of indentation
UpdateLine(depth, cmd) ==
  Joined(IndentText(depth)) \o "animationState." \o UpdatedField(cmd) \o " "
    \o UpdateOperator(cmd) \o " " \o Joined(ExpressionText(Magnitude(cmd))) \o ";\n"

RECURSIVE UpdateLines(_, _)
UpdateLines(depth, cmds) ==
  IF cmds = <<>> THEN ""
  ELSE UpdateLine(depth, Head(cmds)) \o UpdateLines(depth, Tail(cmds))

\* the step of generate that emits the animate block at genIndex
AnimateGenerated ==
  /\ pc = "generateBody" /\ genIndex \in DOMAIN ast.body
  /\ ast.body[genIndex].type = "AnimateBlock"
  /\ genIndex' = genIndex + 1

\* C16: each animation command is emitted as exactly one in-place update of
\* one animationState field (move left: x -=, move right: x +=, move up: y -=,
\* move down: y +=, rotate: rotation +=, scale: scale *=, fade: opacity -=),
\* and nothing else is emitted between clear() and requestAnimationFrame.
C16_OneUpdatePerCommand ==
  [][AnimateGenerated =>
       /\ SubSeq(output', 1, Len(output)) = output
       /\ Joined(SubSeq(output', Len(output) + 1, Len(output'))) =
            Joined(IndentText(indent)) \o "// Animation loop\n"
            \o Joined(IndentText(indent)) \o "function animate() {\n"
            \o Joined(IndentText(indent + 1)) \o "clear();\n"
            \o UpdateLines(indent + 1, ast.body[genIndex].animations)
            \o Joined(IndentText(indent + 1)) \o "requestAnimationFrame(animate);\n"
            \o Joined(IndentText(indent)) \o "}\n"
            \o Joined(IndentText(indent)) \o "animate();\n"
       /\ indent' = indent]_vars

\* generate has emitted an animate block that moves in all four directions,
\* rotates, scales and fades
C16_Witness ==
  /\ pc = "generateBody" /\ genIndex = 2
  /\ ast.body[1].type = "AnimateBlock"
  /\ {<<c.type, UpdatedField(c), UpdateOperator(c)>> :
        c \in {ast.body[1].animations[i] : i \in DOMAIN ast.body[1].animations}} =
       {<<"Move", "x", "-=">>, <<"Move", "x", "+=">>, <<"Move", "y", "-=">>,
        <<"Move", "y", "+=">>, <<"Rotate", "rotation", "+=">>,
        <<"Scale", "scale", "*=">>, <<"Fade", "opacity", "-=">>}
  /\ Len(ast.body[1].animations) = 9

-----------------------------------------------------------------------------
(* Properties of the analysis of animate blocks, checked under SpecAnalyzer *)

\* the animate blocks of a list of statements, at any depth
RECURSIVE AnimateBlocksIn(_)
AnimateBlocksIn(stmts) ==
  IF stmts = <<>> THEN <<>>
  ELSE (CASE Head(stmts).type = "AnimateBlock" -> <<Head(stmts)>>
          [] Head(stmts).type = "FunctionDeclaration" -> AnimateBlocksIn(Head(stmts).body)
          [] Head(stmts).type = "IfStatement" ->
               AnimateBlocksIn(Head(stmts).thenBranch)
               \o (IF Head(stmts).elseBranch # None
                   THEN AnimateBlocksIn(Head(stmts).elseBranch[1]) ELSE <<>>)
          [] Head(stmts).type = "RepeatStatement" -> AnimateBlocksIn(Head(stmts).body)
          [] Head(stmts).type = "SceneBlock" -> AnimateBlocksIn(Head(stmts).body)
          [] OTHER -> <<>>)
       \o AnimateBlocksIn(Tail(stmts))

\* a list of statements with its animate blocks taken out, at any depth
RECURSIVE WithoutAnimate(_)
WithoutAnimate(stmts) ==
  IF stmts = <<>> THEN <<>>
  ELSE (CASE Head(stmts).type = "AnimateBlock" -> <<>>
          [] Head(stmts).type \in {"FunctionDeclaration", "RepeatStatement", "SceneBlock"} ->
               <<[Head(stmts) EXCEPT !.body = WithoutAnimate(@)]>>
          [] Head(stmts).type = "IfStatement" ->
               <<[Head(stmts) EXCEPT
                    !.thenBranch = WithoutAnimate(@),
                    !.elseBranch = IF @ # None THEN Some(WithoutAnimate(@[1])) ELSE @]>>
          [] OTHER -> <<Head(stmts)>>)
       \o WithoutAnimate(Tail(stmts))

\* the places of the identifiers used as magnitudes in the animate blocks
MagnitudePlaces(blocks) ==
  {<<Magnitude(blocks[b].animations[i]).line, Magnitude(blocks[b].animations[i]).column>> :
     <<b, i>> \in {<<b, i>> \in (DOMAIN blocks) \X (1..MaxTokens) :
                     /\ i \in DOMAIN blocks[b].animations
                     /\ Magnitude(blocks[b].animations[i]).type = "Identifier"}}

\* the step of analyze on the animate block at stmtIndex
AnimateAnalyzed ==
  /\ pc = "analyze" /\ stmtIndex \in DOMAIN ast.body
  /\ ast.body[stmtIndex].type = "AnimateBlock"
  /\ stmtIndex' = stmtIndex + 1

\* C17: animate blocks are not analyzed for undefined references: analyze
\* returns the errors of the program without its animate blocks, none of them
\* at an identifier used as the magnitude of a move, rotate, scale or fade
\* command, whatever the depth of the block; analyzing an animate block
\* leaves the scope stack and the error list unchanged.
C17_AnimateNotAnalyzed ==
  /\ [](pc = "done" =>
          /\ errors = Analyze(Program(WithoutAnimate(ast.body)))
          /\ \A e \in DOMAIN errors :
               <<errors[e].line, errors[e].column>>
                 \notin MagnitudePlaces(AnimateBlocksIn(ast.body)))
  /\ [](\A b \in DOMAIN AnimateBlocksIn(ast.body) :
          AnalyzeStatement([scopes |-> scopes, errors |-> errors],
                           AnimateBlocksIn(ast.body)[b])
            = [scopes |-> scopes, errors |-> errors])
  /\ [][AnimateAnalyzed => UNCHANGED <<scopes, errors>>]_vars

\* analyze returned no error for a program with animate blocks at top level,
\* in a function, and in the if and the repeat of a scene, each with an
\* undeclared identifier as magnitude
C17_Witness ==
  /\ pc = "done" /\ mode = "analyze"
  /\ errors = <<>>
  /\ Len(ast.body) = 3
  /\ ast.body[1].type = "AnimateBlock"
  /\ ast.body[2].type = "FunctionDeclaration"
  /\ ast.body[3].type = "SceneBlock"
  /\ Len(AnimateBlocksIn(ast.body)) = 4
  /\ Cardinality(MagnitudePlaces(AnimateBlocksIn(ast.body))) = 4
  /\ \A b \in 1..4 :
       ~Resolves(NewAnalyzer,
                 Magnitude(AnimateBlocksIn(ast.body)[b].animations[1]).name)

-----------------------------------------------------------------------------
(* Properties of the text generated for scene blocks, checked under Spec *)

\* the pieces of a rope up to the piece that opens a parameter list
RECURSIVE NameUpTo(_)
NameUpTo(rope) ==
  IF rope = <<>> \/ Head(rope) = "() {" THEN <<>>
  ELSE <<Head(rope)>> \o NameUpTo(Tail(rope))

\* the places of the generated text where the definition of a scene routine
\* starts
SceneDefinitions == {i \in DOMAIN output : output[i] = "function scene_"}

\* the name of the scene routine defined at a place
SceneRoutine(i) == NameUpTo(SubSeq(output, i + 1, Len(output)))

\* the scene blocks of a list of statements, at any depth
RECURSIVE SceneBlocksIn(_)
SceneBlocksIn(stmts) ==
  IF stmts = <<>> THEN <<>>
  ELSE (CASE Head(stmts).type = "SceneBlock" ->
               <<Head(stmts)>> \o SceneBlocksIn(Head(stmts).body)
          [] Head(stmts).type \in {"FunctionDeclaration", "RepeatStatement"} ->
               SceneBlocksIn(Head(stmts).body)
          [] Head(stmts).type = "IfStatement" ->
               SceneBlocksIn(Head(stmts).thenBranch)
               \o (IF Head(stmts).elseBranch # None
                   THEN SceneBlocksIn(Head(stmts).elseBranch[1]) ELSE <<>>)
          [] OTHER -> <<>>)
       \o SceneBlocksIn(Tail(stmts))

\* C18: every scene block emits a uniquely named routine: the text compile
\* returns defines one routine per scene block, and no two distinct scene
\* blocks of the program define routines with the same name.
C18_SceneRoutinesDistinct ==
  (pc = "done" /\ Returned /\ result[1].success) =>
    /\ Cardinality(SceneDefinitions) = Len(SceneBlocksIn(ast.body))
    /\ \A i, j \in SceneDefinitions : i # j => SceneRoutine(i) # SceneRoutine(j)

-----------------------------------------------------------------------------
(* Properties of the text generated for shapes, checked under Spec *)

\* the four shape constructors
ShapeTypes == {"Circle", "Rect", "Line", "Triangle"}

\* the step of generate that emits the shape statement at genIndex
ShapeGenerated ==
  /\ pc = "generateBody" /\ genIndex \in DOMAIN ast.body
  /\ ast.body[genIndex].type = "ExpressionStatement"
  /\ ast.body[genIndex].expression.type \in ShapeTypes
  /\ genIndex' = genIndex + 1

\* the pieces a step of generate emitted, indentation and line ends left out
EmittedCode ==
  SelectSeq(SubSeq(output', Len(output) + 1, Len(output')),
            LAMBDA piece : piece \notin {"  ", "\n"})

\* the calls that draw on the surface
DrawingCalls ==
  {"ctx.beginPath();", "ctx.arc(0, 0, size, 0, Math.PI * 2);", "ctx.fill();",
   "ctx.fillRect(-w/2, -h/2, w, h);", "ctx.moveTo(", "ctx.lineTo(",
   "ctx.closePath();", "ctx.stroke();"}

\* C19: each of the four shape constructors emits a self-contained anonymous
\* invocation that saves the surface state first, applies the shared
\* transform helper at the declared position before any drawing call, and
\* restores the surface state last.
C19_ShapesTransformed ==
  [][ShapeGenerated =>
       /\ Len(EmittedCode) >= 5
       /\ EmittedCode[1] = "(function() {\n"
       /\ EmittedCode[2] = "ctx.save();"
       /\ \E t \in DOMAIN EmittedCode :
            /\ EmittedCode[t] = "applyTransform(x, y);"
            /\ \A d \in 1..(t - 1) : EmittedCode[d] \notin DrawingCalls
       /\ \E d \in DOMAIN EmittedCode : EmittedCode[d] \in DrawingCalls
       /\ EmittedCode[Len(EmittedCode) - 2] = "ctx.restore();"
       /\ EmittedCode[Len(EmittedCode) - 1] = "})()"]_vars

-----------------------------------------------------------------------------
(* Properties of identifier resolution, checked under SpecAnalyzer.  The      *)
(* references of a program are walked with frames that hold the declared     *)
(* names and nothing else.                                                   *)

\* a declaration puts the name in the innermost frame
NoteDeclaration(E, name) == [E EXCEPT !.frames[Len(E.frames)] = @ \cup {name}]

\* a reference whose name is in no frame is expected to be reported
NoteReference(E, id) ==
  IF \E i \in DOMAIN E.frames : id.name \in E.frames[i] THEN E
  ELSE [E EXCEPT !.expected =
          Append(@, SemanticError(<<"Undefined variable '">> \o id.name \o <<"'">>,
                                  id.line, id.column))]

RECURSIVE NoteExpression(_, _), NoteExpressions(_, _),
          NoteStatement(_, _), NoteStatements(_, _), NoteParameters(_, _)

NoteExpressions(E, exprs) ==
  IF exprs = <<>> THEN E
  ELSE NoteExpressions(NoteExpression(E, Head(exprs)), Tail(exprs))

\* the references of an expression, in the order of the tree
NoteExpression(E, expr) ==
  CASE expr.type = "Identifier" -> NoteReference(E, expr)
    [] expr.type = "BinaryExpression" -> NoteExpressions(E, <<expr.left, expr.right>>)
    [] expr.type = "CallExpression" ->
         NoteExpressions(E, <<expr.callee>> \o expr.arguments)
    [] expr.type = "Circle" ->
         NoteExpressions(E, <<expr.position.x, expr.position.y, expr.size, expr.color>>)
    [] expr.type = "Rect" ->
         NoteExpressions(E, <<expr.position.x, expr.position.y,
                              expr.width, expr.height, expr.color>>)
    [] expr.type = "Line" ->
         NoteExpressions(E, <<expr.start.x, expr.start.y,
                              expr.end.x, expr.end.y, expr.color>>)
    [] expr.type = "Triangle" ->
         NoteExpressions(E, PointCoordinates(expr.points) \o <<expr.color>>)
    [] OTHER -> E

NoteParameters(E, parameters) ==
  IF parameters = <<>> THEN E
  ELSE NoteParameters(NoteDeclaration(E, Head(parameters).name), Tail(parameters))

NoteStatements(E, stmts) ==
  IF stmts = <<>> THEN E
  ELSE NoteStatements(NoteStatement(E, Head(stmts)), Tail(stmts))

\* the declarations and references of a statement, in the order of the tree;
\* functions and scenes open a frame, animate blocks are left out
NoteStatement(E, stmt) ==
  CASE stmt.type = "LetStatement" ->
         NoteDeclaration(NoteExpression(E, stmt.value), stmt.identifier.name)
    [] stmt.type = "FunctionDeclaration" ->
         [NoteStatements(
            NoteParameters([NoteDeclaration(E, stmt.name.name)
                              EXCEPT !.frames = Append(@, {})],
                           stmt.parameters),
            stmt.body)
          EXCEPT !.frames = SubSeq(@, 1, Len(@) - 1)]
    [] stmt.type = "ReturnStatement" ->
         IF stmt.value # None THEN NoteExpression(E, stmt.value[1]) ELSE E
    [] stmt.type = "IfStatement" ->
         NoteStatements(
           NoteStatements(NoteExpression(E, stmt.condition), stmt.thenBranch),
           IF stmt.elseBranch # None THEN stmt.elseBranch[1] ELSE <<>>)
    [] stmt.type = "RepeatStatement" ->
         NoteStatements(NoteExpression(E, stmt.times), stmt.body)
    [] stmt.type = "SceneBlock" ->
         [NoteStatements([E EXCEPT !.frames = Append(@, {})], stmt.body)
          EXCEPT !.frames = SubSeq(@, 1, Len(@) - 1)]
    [] stmt.type = "ExpressionStatement" -> NoteExpression(E, stmt.expression)
    [] OTHER -> E

\* the errors expected of analyze for the references of a program
ExpectedUndefined(stmts) ==
  NoteStatements([frames |-> <<{}>>, expected |-> <<>>], stmts).expected

\* the "undefined variable" errors among the errors analyze returned
UndefinedErrors ==
  SelectSeq(errors,
            LAMBDA e : \E i \in DOMAIN e.message : e.message[i] = "Undefined variable '")

\* C20: identifier resolution and error collection are exact and exhaustive:
\* analyze returns one "undefined variable" error for each identifier
\* reference outside animate blocks whose name is in no frame of the scope
\* stack when the reference is analyzed, none for a reference whose name is in
\* some frame, in the order of the tree and to the end of the tree.
C20_ResolutionExact ==
  pc = "done" => UndefinedErrors = ExpectedUndefined(ast.body)

-----------------------------------------------------------------------------
(* Properties of the parse of binary expressions, checked under SpecParser *)

ComparisonKinds ==
  {"GREATER_THAN", "GREATER_EQUAL", "LESS_THAN", "LESS_EQUAL", "EQUAL", "NOT_EQUAL"}
AdditiveKinds == {"PLUS", "MINUS"}
MultiplicativeKinds == {"MULTIPLY", "DIVIDE", "MODULO"}

\* the rung of an operator on the precedence ladder, lowest binding first
Rung(kind) ==
  CASE kind \in ComparisonKinds -> 1
    [] kind \in AdditiveKinds -> 2
    [] kind \in MultiplicativeKinds -> 3

\* parse returned for the tokens of `a <op> b <op> c`
TwoOperatorsParsed ==
  /\ pc = "done" /\ mode = "parse"
  /\ Len(tokens) = 6
  /\ \A i \in {1, 3, 5} : tokens[i].type = "IDENTIFIER"
  /\ \A i \in {2, 4} :
       tokens[i].type \in ComparisonKinds \cup AdditiveKinds \cup MultiplicativeKinds
  /\ tokens[6].type = "EOF"

\* an expression without the places of its nodes
RECURSIVE TreeOf(_)
TreeOf(expr) ==
  CASE expr.type = "Identifier" -> [leaf |-> expr.name]
    [] expr.type = "BinaryExpression" ->
         [op |-> expr.operator, l |-> TreeOf(expr.left), r |-> TreeOf(expr.right)]
    [] OTHER -> [other |-> expr.type]

\* Binary(op, l, r)
Binary(op, l, r) == [op |-> op, l |-> l, r |-> r]

\* the operand at token i
Operand(i) == [leaf |-> tokens[i].value]

\* the tree the precedence ladder gives `a <op1> b <op2> c`: the second
\* operator takes b when it binds more tightly than the first, and the
\* first takes it otherwise (left association within a rung)
LadderTree ==
  IF Rung(tokens[4].type) > Rung(tokens[2].type)
  THEN Binary(tokens[2].value, Operand(1),
              Binary(tokens[4].value, Operand(3), Operand(5)))
  ELSE Binary(tokens[4].value,
              Binary(tokens[2].value, Operand(1), Operand(3)), Operand(5))

\* C21: binary operators parse with the ladder comparison < additive <
\* multiplicative and associate to the left within a rung: `a + b * c` is
\* Binary(+, a, Binary(*, b, c)), `a * b + c` is Binary(+, Binary(*, a, b), c),
\* `a - b - c` is Binary(-, Binary(-, a, b), c), `a < b + c` is
\* Binary(<, a, Binary(+, b, c)).
C21_PrecedenceLadder ==
  TwoOperatorsParsed =>
    /\ console = <<>>
    /\ Len(statements) = 1
    /\ statements[1].type = "ExpressionStatement"
    /\ TreeOf(statements[1].expression) = LadderTree

\* parse returned Binary(+, a, Binary(*, b, c)) for `a + b * c`
C21_Witness ==
  /\ TwoOperatorsParsed
  /\ tokens[2].type = "PLUS" /\ tokens[4].type = "MULTIPLY"
  /\ Len(statements) = 1
  /\ TreeOf(statements[1].expression) =
       Binary(<<"+">>, [leaf |-> <<"a">>],
              Binary(<<"*">>, [leaf |-> <<"b">>], [leaf |-> <<"c">>]))

\* C22: comparison is non-chaining: the comparison level reads exactly one
\* operator application before returning, so in `a < b < c` only `a < b` is
\* taken as the comparison and the second `<` is not folded into the same
\* expression.
C22_ComparisonNotChained ==
  (/\ TwoOperatorsParsed
   /\ tokens[2].type \in ComparisonKinds /\ tokens[4].type \in ComparisonKinds)
  => /\ statements # <<>>
     /\ statements[1].type = "ExpressionStatement"
     /\ TreeOf(statements[1].expression) =
          Binary(tokens[2].value, Operand(1), Operand(3))

-----------------------------------------------------------------------------
(* Properties of Lexer.readIdentifier, checked under SpecLexer *)

\* a text that is one lexeme: a letter or underscore, then letters, digits
\* or underscores
IsLexeme(text) ==
  /\ text # <<>>
  /\ IsIdentStart(text[1])
  /\ \A i \in DOMAIN text : IsIdentPart(text[i])

\* the kind specified for a lexeme: the keyword kind of its lower-cased text
\* when that is a reserved word, IDENTIFIER otherwise
LexemeKind(text) ==
  IF ToLowerCase(text) \in DOMAIN KEYWORDS THEN KEYWORDS[ToLowerCase(text)]
  ELSE "IDENTIFIER"

\* tokenize returned
Tokenized == pc = "done" /\ mode = "tokenize"

\* C23: for every lexeme that starts with a letter or underscore and goes on
\* with letters, digits or underscores, the token kind is the keyword kind of
\* the lower-cased text when that is one of the 26 reserved words and
\* IDENTIFIER otherwise, and the token text is the lexeme with its original
\* case; every token kind the lexer produces is a member of TokenType.
C23_KeywordLookup ==
  Tokenized =>
    /\ Cardinality(DOMAIN KEYWORDS) = 26
    /\ \A i \in DOMAIN tokens : tokens[i].type \in TokenType
    /\ IsLexeme(input) =>
         /\ Len(tokens) = 2
         /\ tokens[1].value = input
         /\ tokens[1].type = LexemeKind(input)

-----------------------------------------------------------------------------
(* Properties of the scope stack, checked under SpecAnalyzer *)

RECURSIVE DepthsFollow(_, _, _), NestedFollow(_, _, _)

\* the statements of a list are each analyzed at the given depth of the scope
\* stack, from the analyzer state A on, and leave the stack at that depth
DepthsFollow(A, stmts, depth) ==
  IF stmts = <<>> THEN Len(A.scopes) = depth
  ELSE /\ Len(A.scopes) = depth
       /\ NestedFollow(A, Head(stmts), depth)
       /\ DepthsFollow(AnalyzeStatement(A, Head(stmts)), Tail(stmts), depth)

\* the statements nested in a statement: one frame deeper in a function or
\* a scene, whose frame is gone after it with the frames below as they were
\* on entry; at the same depth in an if or a repeat
NestedFollow(A, stmt, depth) ==
  CASE stmt.type = "FunctionDeclaration" ->
         /\ DepthsFollow(
              DeclareParameters(
                EnterScope(Declare(A, stmt.name.name, "function",
                                   stmt.name.line, stmt.name.column)),
                stmt.parameters),
              stmt.body, depth + 1)
         /\ AnalyzeStatement(A, stmt).scopes =
              Declare(A, stmt.name.name, "function",
                      stmt.name.line, stmt.name.column).scopes
    [] stmt.type = "SceneBlock" ->
         /\ DepthsFollow(EnterScope(A), stmt.body, depth + 1)
         /\ AnalyzeStatement(A, stmt).scopes = A.scopes
    [] stmt.type = "IfStatement" ->
         /\ DepthsFollow(AnalyzeExpression(A, stmt.condition), stmt.thenBranch, depth)
         /\ stmt.elseBranch # None =>
              DepthsFollow(
                AnalyzeStatements(AnalyzeExpression(A, stmt.condition), stmt.thenBranch),
                stmt.elseBranch[1], depth)
    [] stmt.type = "RepeatStatement" ->
         DepthsFollow(AnalyzeExpression(A, stmt.times), stmt.body, depth)
    [] OTHER -> TRUE

\* C24: the scope stack follows the nesting of the tree in LIFO order: it
\* holds exactly the global frame when analysis starts, between the
\* statements of the program and when analyze returns; while a statement is
\* analyzed its depth is 1 + the number of enclosing function declarations
\* and scene blocks; every frame pushed for a function or scene body is
\* popped on exit, also when the body produced errors.
C24_ScopeStackLifo ==
  /\ Len(scopes) = 1
  /\ (pc = "analyze" /\ stmtIndex \in DOMAIN ast.body) =>
       DepthsFollow([scopes |-> scopes, errors |-> errors],
                    <<ast.body[stmtIndex]>>, 1)

\* analyze returned with errors from the body of a function nested in a
\* scene, and the stack holds the global frame alone
C24_Witness ==
  /\ pc = "done" /\ mode = "analyze"
  /\ \E i \in DOMAIN ast.body :
       /\ ast.body[i].type = "SceneBlock"
       /\ ast.body[i].body # <<>>
       /\ ast.body[i].body[1].type = "FunctionDeclaration"
       /\ \E e \in DOMAIN errors : errors[e].line = ast.body[i].line
  /\ Len(errors) >= 3
  /\ Len(scopes) = 1

-----------------------------------------------------------------------------
(* Properties of the routine generated for an animate block, checked under   *)
(* Spec                                                                      *)

\* the number of pieces of a rope that equal a given piece
Occurrences(rope, piece) == Cardinality({i \in DOMAIN rope : rope[i] = piece})

\* C25: the routine emitted for an animate block clears the surface first,
\* then holds the block's commands as animationState updates in source
\* order, then requests the next frame, naming itself, as its last
\* statement; its definition is followed by exactly one direct invocation.
C25_AnimateRoutineOrder ==
  [][AnimateGenerated =>
       /\ Len(EmittedCode) >= 6
       /\ EmittedCode[2] = "function animate() {"
       /\ EmittedCode[3] = "clear();"
       /\ Joined(SubSeq(EmittedCode, 4, Len(EmittedCode) - 3)) =
            UpdateLines(0, ast.body[genIndex].animations)
       /\ EmittedCode[Len(EmittedCode) - 2] = "requestAnimationFrame(animate);"
       /\ EmittedCode[Len(EmittedCode) - 1] = "}"
       /\ EmittedCode[Len(EmittedCode)] = "animate();"
       /\ Occurrences(EmittedCode, "animate();") = 1
       /\ Occurrences(EmittedCode, "function animate() {") = 1
       /\ Occurrences(EmittedCode, "requestAnimationFrame(animate);") = 1
       /\ Occurrences(EmittedCode, "clear();") = 1]_vars

\* generate has emitted the routine of an animate block with several
\* commands, and its invocation
C25_Witness ==
  /\ pc = "generateBody" /\ genIndex = 2
  /\ ast.body[1].type = "AnimateBlock"
  /\ \E i, j \in DOMAIN ast.body[1].animations :
       i < j /\ ast.body[1].animations[i].type # ast.body[1].animations[j].type
  /\ Occurrences(output, "requestAnimationFrame(animate);") = 1
  /\ output[Len(output) - 1] = "animate();"

-----------------------------------------------------------------------------
(* Properties of the routines of several animate blocks, checked under Spec *)

\* the places of the "// Animation loop" comments of the generated text
LoopComments == {i \in DOMAIN output : output[i] = "// Animation loop"}

\* the line that opens the definition of an animate routine: the first piece
\* after its comment that is neither indentation nor a line end
RoutineHead(i) ==
  output[CHOOSE j \in (i + 1)..Len(output) :
           /\ output[j] \notin {"  ", "\n"}
           /\ \A m \in (i + 1)..(j - 1) : output[m] \in {"  ", "\n"}]

\* compile returned the text of a program made of animate blocks alone, all
\* of them statements of main
AnimateBlocksCompiled ==
  /\ pc = "done" /\ Returned /\ result[1].success
  /\ ast.body # <<>>
  /\ \A i \in DOMAIN ast.body : ast.body[i].type = "AnimateBlock"

\* C28: when a program holds two or more animate blocks their per-frame
\* routines do not collide: each block has its own routine definition and no
\* two definitions in the same enclosing emitted scope have the same name.
C28_AnimateRoutinesDistinct ==
  AnimateBlocksCompiled =>
    /\ Cardinality(LoopComments) = Len(ast.body)
    /\ \A i, j \in LoopComments : i # j => RoutineHead(i) # RoutineHead(j)

-----------------------------------------------------------------------------
(* Properties of the temporaries of the text generated for shapes, checked   *)
(* under Spec                                                                *)

\* the names of a sequence of expressions
RECURSIVE IdentifiersIn(_)
IdentifiersIn(exprs) ==
  IF exprs = <<>> THEN {}
  ELSE (CASE Head(exprs).type = "Identifier" -> {Head(exprs).name}
          [] Head(exprs).type = "BinaryExpression" ->
               IdentifiersIn(<<Head(exprs).left, Head(exprs).right>>)
          [] Head(exprs).type = "CallExpression" ->
               IdentifiersIn(<<Head(exprs).callee>> \o Head(exprs).arguments)
          [] OTHER -> {})
       \cup IdentifiersIn(Tail(exprs))

\* the user sub-expressions of a shape
SubExpressions(shape) ==
  CASE shape.type = "Circle" ->
         <<shape.position.x, shape.position.y, shape.size, shape.color>>
    [] shape.type = "Rect" ->
         <<shape.position.x, shape.position.y, shape.width, shape.height, shape.color>>
    [] shape.type = "Line" ->
         <<shape.start.x, shape.start.y, shape.end.x, shape.end.y, shape.color>>
    [] shape.type = "Triangle" -> PointCoordinates(shape.points) \o <<shape.color>>

\* the name a piece of generated text declares as a local of the invocation
TemporaryOf ==
     ("const x = " :> <<"x">>) @@ ("const y = " :> <<"y">>)
  @@ ("const size = " :> <<"s", "i", "z", "e">>)
  @@ ("const w = " :> <<"w">>) @@ ("const h = " :> <<"h">>)
  @@ ("const color = " :> <<"c", "o", "l", "o", "r">>)

\* the locals the invocation emitted by a step of generate declares
EmittedTemporaries ==
  {TemporaryOf[EmittedCode[i]] :
     i \in {k \in DOMAIN EmittedCode : EmittedCode[k] \in DOMAIN TemporaryOf}}

\* C27: in the code emitted for a shape every identifier of a user
\* sub-expression refers to the user's own binding: no local temporary of the
\* emitted invocation (x, y, size, w, h, color) has the name of an identifier
\* used in a sub-expression of that shape.
C27_TemporariesDoNotCapture ==
  [][ShapeGenerated =>
       EmittedTemporaries
         \cap IdentifiersIn(SubExpressions(ast.body[genIndex].expression)) = {}]_vars

-----------------------------------------------------------------------------
(* The indent of the CodeGenerator and the nesting of the text it emits *)

\* the pieces of text that open a block, and those that close one
OpeningPieces ==
  {"let animationState = {", "function resetTransform() {",
   "function applyTransform(x, y) {", "function clear() {", "(function main() {",
   "(function() {\n", ") {\n", "; __i++) {\n", "} else {", "function animate() {",
   "() {", "{"}
ClosingPieces == {"};", "}", "})();", "})()", "} else {"}

\* the pieces that end a line of the output
LineEnds == {"\n", ";\n", ");\n", ") {\n", "; __i++) {\n", "(function() {\n"}

\* piece i of the output lies in a string literal as the host reads the text:
\* an odd number of double quotes precedes it
InLiteral(i) == Cardinality({k \in 1..(i - 1) : output[k] = "\""}) % 2 = 1

\* piece i opens (closes) a block of the emitted code
Opening(i) ==
  /\ output[i] \in OpeningPieces
  /\ output[i] = "{" => ~InLiteral(i)
Closing(i) ==
  /\ output[i] \in ClosingPieces
  /\ output[i] = "}" => ~InLiteral(i)

\* the number of blocks open before piece i
DepthBefore(i) ==
  Cardinality({j \in 1..(i - 1) : Opening(j)})
  - Cardinality({j \in 1..(i - 1) : Closing(j)})

\* the opening braces of the whole output less its closing braces, those of
\* its string literals included
BraceExcess ==
  Cardinality({j \in DOMAIN output : output[j] \in OpeningPieces})
  - Cardinality({j \in DOMAIN output : output[j] \in ClosingPieces})

\* the pieces that begin a line of the emitted code
LineStarts ==
  {i \in DOMAIN output :
     \/ i = 1
     \/ /\ output[i - 1] \in LineEnds
        /\ output[i - 1] = "\n" => ~InLiteral(i - 1)}

\* the number of indent units at the head of the line that begins at piece i
IndentAt(i) ==
  CHOOSE k \in 0..Len(output) :
    /\ \A j \in i..(i + k - 1) : j <= Len(output) /\ output[j] = "  "
    /\ i + k > Len(output) \/ output[i + k] # "  "

\* the line that begins at piece i is indented by the number of blocks that
\* are open on it; a line that begins by closing a block is indented as the
\* line that opened the block
LineIndented(i) ==
  IndentAt(i) =
    DepthBefore(i)
    - (IF i + IndentAt(i) <= Len(output) /\ Closing(i + IndentAt(i)) THEN 1 ELSE 0)

\* compile returned the generated text
GenerateReturned == pc = "done" /\ Returned /\ result[1].success

\* C29: the indent of the generator is never negative and is 1 at every
\* top-level statement of the program; the statement's emission leaves it at
\* the value it had on entry; inside each emitted block (function, if, else,
\* repeat, animate routine, scene routine, shape invocation) it is one more
\* than around the block, so every line of the returned text is indented by
\* the number of blocks open on it; it is 0 when generate returns, and the
\* opening and closing braces of the output are balanced.  The braces are
\* taken as balanced when they are so in either count, over the whole output
\* or over the output outside its string literals, so the property fails only
\* on an output that is unbalanced whichever way its braces are counted.
C29_IndentMirrorsNesting ==
  /\ [](indent >= 0)
  /\ [](pc = "generateBody" => indent = 1)
  /\ [][GenerateStep => indent' = indent]_vars
  /\ [](GenerateReturned =>
          /\ indent = 0
          /\ output = result[1].output[1]
          /\ \A i \in LineStarts : LineIndented(i)
          /\ BraceExcess = 0 \/ DepthBefore(Len(output) + 1) = 0)

-----------------------------------------------------------------------------
(* String literals through the compilation *)

\* generate is at a top-level `let` whose value is a string literal
StringLetGenerated ==
  /\ GenerateStep
  /\ ast.body[genIndex].type = "LetStatement"
  /\ ast.body[genIndex].value.type = "StringLiteral"

\* the text emitted for the value of that statement: what follows
\* `let <name> = ` and precedes the closing `;`
EmittedLiteral ==
  SubSeq(output', Len(output) + Len(ast.body[genIndex].identifier.name) + 4,
         Len(output') - 1)

\* the kinds and values of the tokens of a text
KindsAndValues(toks) == [i \in DOMAIN toks |-> <<toks[i].type, toks[i].value>>]

\* C30: a string literal survives compilation unchanged: the text emitted for
\* a source string literal, an escaped double quote included, is a
\* double-quoted literal that denotes the value the lexer read, so lexing the
\* emitted text again gives one STRING token of that value and nothing else.
C30_StringLiteralRoundTrip ==
  [][StringLetGenerated =>
       /\ Head(EmittedLiteral) = "\""
       /\ EmittedLiteral[Len(EmittedLiteral)] = "\""
       /\ Len(Tokenize(EmittedLiteral)) = 2
       /\ KindsAndValues(Tokenize(EmittedLiteral))[1]
            = <<"STRING", ast.body[genIndex].value.value>>]_vars

-----------------------------------------------------------------------------
(* Exceptions inside compile, checked under SpecThrow *)

\* the call ends in this step, and neither with the semantic errors that
\* analyze returned nor with the text that generate returned: a stage raised
\* an exception
Raised ==
  /\ pc # "done" /\ pc' = "done"
  /\ result' \notin {Some(SemanticFailure(errors)), Some(Success(output'))}

\* C26: compile never propagates an exception: every call ends with a
\* returned result; an exception raised in a stage (the Lexer, the Parser, the
\* SemanticAnalyzer or the CodeGenerator), whatever its type, becomes a result
\* with success = false, no output and an errors list of exactly one message,
\* the message of the exception (that of the TypeError only for the Lexer on
\* an undefined source); the stages after the one that raised do not run,
\* neither in that step nor later.
C26_ExceptionsBecomeFailures ==
  /\ [](pc = "done" => Returned)
  /\ [][Raised =>
          /\ result' # None
          /\ ~result'[1].success
          /\ result'[1].output = None
          /\ result'[1].errors # None
          /\ Len(result'[1].errors[1]) = 1
          /\ result'[1].errors[1][1]
               \in {TypeErrorOfUndefined.message, StackExhausted.message}
          /\ result'[1].errors[1][1] = TypeErrorOfUndefined.message
               => (pc = "construct" /\ input = Undefined)
          /\ pc = "construct" => lexer' = NoLexer
          /\ pc \in {"construct", "tokenize"} =>
               (current' = 0 /\ statements' = <<>> /\ console' = <<>>)
          /\ pc \in {"construct", "tokenize", "parse"} =>
               (ast' = NoNode /\ scopes' = <<>> /\ errors' = <<>> /\ stmtIndex' = 0)
          /\ pc \in {"construct", "tokenize", "parse", "analyze"} =>
               (output' = <<>> /\ indent' = 0 /\ genIndex' = 0)]_vars
  /\ [][pc # "done"]_vars

\* the parser raised after it had parsed a statement: the call returned the
\* one message, and neither the analysis nor the generation ran
C26_Witness ==
  /\ pc = "done" /\ Returned
  /\ result[1] = [success |-> FALSE, output |-> None,
                  errors |-> Some(<<StackExhausted.message>>)]
  /\ statements # <<>>
  /\ ast = NoNode
  /\ scopes = <<>> /\ output = <<>>

\* the Lexer raised on an undefined source
C26_WitnessLexer ==
  /\ pc = "done" /\ Returned
  /\ input = Undefined
  /\ result[1].errors = Some(<<TypeErrorOfUndefined.message>>)
  /\ tokens = <<>>

\* the generator raised after it had emitted the preamble
C26_WitnessGenerator ==
  /\ pc = "done" /\ Returned
  /\ ~result[1].success
  /\ output # <<>>

=============================================================================
